---- MODULE Spec2Model ----
(***************************************************************************)
(* Darkstar: the remote-scanner (mode 5) lifecycle.                        *)
(*                                                                         *)
(* OpenVASScanner.scan_targets creates one remote target per input target, *)
(* one remote task per created target, starts every created task, and      *)
(* hands the started tasks to monitor_task_queue, which polls them until   *)
(* every one is marked completed.  worker.run with mode 5 performs the     *)
(* same create / create / start steps and returns without monitoring.      *)
(*                                                                         *)
(* A remote call is one step whose answer is chosen by the environment:    *)
(* it returns a body or raises.  Targets are numbered 1..Len(targets); the *)
(* remote target and the remote task made for target t carry the id t.     *)
(***************************************************************************)
EXTENDS Integers, Sequences, FiniteSets, TLC

\* ------------------------------------------------------------------ bounds
MaxTargets == 2     \* longest list of input targets
MaxBody == 2        \* longest report body, in characters
MaxFindings == 1    \* most records one report ingestion creates
\* <result> elements of one report
MaxResults == 2

\* --------------------------------------------------------------- constants
None == "None"                      \* Python's None
Exc == "exc"                        \* a call that raised
Pending == "pending"                \* a call of a gather that has not ended
NoField == "<absent>"               \* a status response without a status field
RID == "rid"                        \* a non-empty report id

EntryPoints == {"scan_targets", "worker_run"}

\* status values the remote service may answer with
RemoteStatuses == {"Requested", "Running", "Done", "Stopped", "Failed", "Interrupted"}
FetchStatuses == {"Done", "Stopped"}
AbortStatuses == {"Failed", "Interrupted"}
TerminalStatuses == FetchStatuses \cup AbortStatuses

\* what start_task may return: a non-dict body, or a dict whose report_id
\* is a string, the empty string, or null / missing
StartResponses == {"nondict", RID, "", None}

\* characters of a report body: a blank, a newline, a visible character
Chars == {" ", "\n", "x"}
Whitespace == {" ", "\n"}

VARIABLES
    entry,            \* which mode-5 entry point runs
    targets,          \* the input list of targets
    pc,               \* position of the run
    created,          \* results of the create_target gather, by position
    target_results,   \* targets whose create_target succeeded, in order
    tasks,            \* results of the create_task gather, by position
    task_results,     \* tasks whose create_task succeeded, in order
    starts,           \* results of the start_task gather, by position
    task_info,        \* the monitor's list of tracked task entries
    idx,              \* position of the monitor's for loop in task_info
    report_xml,       \* the monitor's local report_xml
    files,            \* task ids whose report file has been written
    vulnerabilities,  \* self.vulnerabilities: source task id of each record
    sink,             \* records handed to the persistence sink, in order
    calls,            \* number of remote calls issued, by operation and id
    nParse,           \* number of ingestion calls, by task id
    nSet,             \* number of completed=True assignments, by task id
    polled,           \* positions polled in the current monitor iteration
    scriptPos,        \* per position: how far the polls followed Script
    event             \* the operation performed by the last step

VARIABLES
    report,              \* the report file handed to parse_results_to_vulns
    pos,                 \* position of the loop over the <result> elements
    ipos,                \* position of the insert loop in self.vulnerabilities
    skipped_count,       \* the local skipped_count
    vulnerability_count, \* the local vulnerability_count
    epss,                \* the local epss, in hundredths
    exploit,             \* the local exploit
    feed                 \* per result: what the scoring feed answered, if asked

findVars == <<report, pos, ipos, skipped_count, vulnerability_count, epss, exploit, feed>>

VARIABLES
    runner,            \* who runs the mode: worker.run or a BaseScanner subclass
    mode,              \* the mode number
    scanner,           \* what ScannerFactory.create_scanner returned
    reads,             \* per scan job: what it was constructed with
    job,               \* per scan job: idle, running, done, failed, skipped, cancelled
    subdomains_file,   \* state of the file subdomains_file names after discovery
    ips_file,          \* state of the file ips_file names after discovery
    wordpress_domains, \* what WordPressDetector.run returned
    wordpress_targets, \* the targets WordPressNucleiScanner was constructed with
    warned,            \* the jobs whose skip was logged as a warning
    error_logged,      \* logger.error("Invalid mode ...") was called
    ended_at_launch,   \* per job: the jobs that had ended when it was launched
    launches,          \* per job: how many times it was launched
    result             \* the keys of the dict run() returned

pipeVars == <<runner, mode, scanner, job, reads, subdomains_file, ips_file, wordpress_domains,
              wordpress_targets, warned, error_logged, ended_at_launch, launches,
              result>>

VARIABLES
    targets_str,   \* the target string of the command line
    parsed,        \* the list parse_targets built from it
    classified,    \* the lists categorize_targets was called with
    target_df,     \* what parse_targets returned: an empty or a categorized frame
    warning        \* parse_targets logged "No valid targets provided"

parseVars == <<targets_str, parsed, classified, target_df, warning>>

VARIABLES
    gmp_status,    \* per task id: the status of the daemon's start_task response
    answered       \* per task id: the status of the body the start handler returned

apiVars == <<gmp_status, answered>>

vars == <<entry, targets, pc, created, target_results, tasks, task_results,
          starts, task_info, idx, report_xml, files,
          vulnerabilities, sink, calls, nParse, nSet, polled, scriptPos, event,
          findVars, pipeVars, parseVars, apiVars>>

scanVars == <<created, target_results, tasks, task_results, starts>>
ingestVars == <<files, vulnerabilities, sink, nParse>>

\* ----------------------------------------------------------------- helpers
Ops == {"create_target", "create_task", "start_task", "get_report"}
Ids == 1..MaxTargets

\* mutant of FilterOk: the failed calls are not filtered out
FilterOk_KeepsAll(seq, res, k) == seq

\* the elements of seq at the positions whose gather result is no exception
\* (the "if isinstance(res, Exception) ... else append" loops)
RECURSIVE FilterOk(_, _, _)
FilterOk(seq, res, k) ==
    IF k > Len(seq) THEN <<>>
    ELSE (IF res[k] = Exc THEN <<>> ELSE <<seq[k]>>) \o FilterOk(seq, res, k + 1)

\* report_id of a start response: start_res.get("report_id") for a dict
ReportIdOf(start_res) == IF start_res = "nondict" THEN None ELSE start_res

\* the entry scan_targets appends for a started task
TaskEntry(task, start_res) ==
    [task_id |-> task, task_name |-> task,
     report_id |-> ReportIdOf(start_res), completed |-> FALSE]

\* mutant of BuildTaskInfo: a task whose start call raised is tracked too
BuildTaskInfo_KeepsFailed(trs, sts, k) ==
    [n \in 1..Len(trs) |-> TaskEntry(trs[n], IF sts[n] = Exc THEN None ELSE sts[n])]

\* task_info built from zip(task_results, starts)
RECURSIVE BuildTaskInfo(_, _, _)
BuildTaskInfo(trs, sts, k) ==
    IF k > Len(trs) THEN <<>>
    ELSE (IF sts[k] = Exc THEN <<>> ELSE <<TaskEntry(trs[k], sts[k])>>)
         \o BuildTaskInfo(trs, sts, k + 1)

\* mutant of Truthy: the "if task["report_id"]" test lets every id through
Truthy_Always(rid) == TRUE

\* Python truthiness of a report id: None and "" are false
Truthy(rid) == rid \notin {None, ""}

\* str.strip(): leading and trailing whitespace removed
RECURSIVE LStrip(_)
LStrip(s) == IF s # <<>> /\ Head(s) \in Whitespace THEN LStrip(Tail(s)) ELSE s
RECURSIVE RStrip(_)
RStrip(s) ==
    IF s # <<>> /\ s[Len(s)] \in Whitespace THEN RStrip(SubSeq(s, 1, Len(s) - 1)) ELSE s
Strip(s) == RStrip(LStrip(s))

\* mutant of HasContent: the body is not stripped before the test
HasContent_NoStrip(body) == body # <<>>

\* "report_xml and len(report_xml.strip()) > 0"
HasContent(body) == body # <<>> /\ Len(Strip(body)) > 0

Bodies == UNION {[1..n -> Chars] : n \in 0..MaxBody}

\* mutant of CurrentStatus: a missing status field reads as Done
CurrentStatus_DefaultDone(field) == IF field = NoField THEN "Done" ELSE field

\* status_resp.get("status", "Unknown")
CurrentStatus(field) == IF field = NoField THEN "Unknown" ELSE field

\* the status sequence of the scripted scenario
Script == <<"Running", "Running", "Done">>
Off == -1

\* scriptPos after one more poll of a position with this outcome
ScriptStep(p, outcome) ==
    IF p >= 0 /\ p < Len(Script) /\ outcome = Script[p + 1] THEN p + 1 ELSE Off

AllCompleted == \A i \in 1..Len(task_info) : task_info[i].completed

\* no start_task request has been answered
NoApi ==
    /\ gmp_status = [t \in Ids |-> None]
    /\ answered = [t \in Ids |-> None]

\* parse_targets has not been called
NoParse ==
    /\ targets_str = <<>>
    /\ parsed = <<>>
    /\ classified = <<>>
    /\ target_df = None
    /\ warning = FALSE

\* run() has returned no dict
NoResult == {None}

\* no list of sites: the detector has not returned, the scan was not constructed
NoSites == <<None>>

JobNames == {"bbot", "rustscan", "nuclei", "wordpress_detector", "wordpress_nuclei"}

\* no mode of 1 to 4 is being run
NoPipeline ==
    /\ runner = "worker"
    /\ mode = 5
    /\ scanner = None
    /\ job = [j \in JobNames |-> "idle"]
    /\ reads = [j \in JobNames |-> None]
    /\ subdomains_file = None
    /\ ips_file = None
    /\ wordpress_domains = NoSites
    /\ wordpress_targets = NoSites
    /\ warned = {}
    /\ error_logged = FALSE
    /\ ended_at_launch = [j \in JobNames |-> {}]
    /\ launches = [j \in JobNames |-> 0]
    /\ result = NoResult

\* ------------------------------------------------------------------- Init
Init ==
    /\ entry \in EntryPoints
    /\ \E n \in 0..MaxTargets : targets = [k \in 1..n |-> k]
    /\ pc = "create_targets"
    /\ created = [k \in 1..Len(targets) |-> Pending]
    /\ target_results = <<>>
    /\ tasks = <<>>
    /\ task_results = <<>>
    /\ starts = <<>>
    /\ task_info = <<>>
    /\ idx = 0
    /\ report_xml = <<>>
    /\ files = {}
    /\ vulnerabilities = <<>>
    /\ sink = <<>>
    /\ calls = [op \in Ops |-> [t \in Ids |-> 0]]
    /\ nParse = [t \in Ids |-> 0]
    /\ nSet = [t \in Ids |-> 0]
    /\ polled = {}
    /\ scriptPos = [i \in Ids |-> 0]
    /\ event = [op |-> "init", id |-> 0, res |-> None, body |-> <<>>]
    /\ report = [wellformed |-> FALSE, results |-> <<>>]
    /\ pos = 0
    /\ ipos = 0
    /\ skipped_count = 0
    /\ vulnerability_count = 0
    /\ epss = 0
    /\ exploit = FALSE
    /\ feed = [k \in 1..MaxResults |-> None]
    /\ NoPipeline
    /\ NoParse
    /\ NoApi

\* one more remote call of this operation for this id
Issue(op, id) == calls' = [calls EXCEPT ![op][id] = @ + 1]

monVars == <<task_info, idx, report_xml, nSet, polled, scriptPos>>

\* ------------------------------------------------ create / create / start
\* one create_target call of the first gather ends
CreateTarget(k) ==
    /\ pc = "create_targets"
    /\ k \in 1..Len(targets)
    /\ created[k] = Pending
    /\ \E r \in {"ok", Exc} :
        /\ created' = [created EXCEPT ![k] = r]
        /\ event' = [op |-> "create_target", id |-> targets[k], res |-> r, body |-> <<>>]
    /\ Issue("create_target", targets[k])
    /\ UNCHANGED <<entry, targets, pc, target_results, tasks, task_results, starts,
                   monVars, ingestVars, findVars, pipeVars, parseVars, apiVars>>

\* the gather is over: keep the created targets, open the create_task gather
CollectTargets ==
    /\ pc = "create_targets"
    /\ \A k \in 1..Len(targets) : created[k] # Pending
    /\ target_results' = FilterOk(targets, created, 1)
    /\ tasks' = [k \in 1..Len(target_results') |-> Pending]
    /\ pc' = "create_tasks"
    /\ event' = [op |-> "collect_targets", id |-> 0, res |-> None, body |-> <<>>]
    /\ UNCHANGED <<entry, targets, created, task_results, starts, calls,
                   monVars, ingestVars, findVars, pipeVars, parseVars, apiVars>>

\* one create_task call of the second gather ends
CreateTask(k) ==
    /\ pc = "create_tasks"
    /\ k \in 1..Len(target_results)
    /\ tasks[k] = Pending
    /\ \E r \in {"ok", Exc} :
        /\ tasks' = [tasks EXCEPT ![k] = r]
        /\ event' = [op |-> "create_task", id |-> target_results[k], res |-> r, body |-> <<>>]
    /\ Issue("create_task", target_results[k])
    /\ UNCHANGED <<entry, targets, pc, created, target_results, task_results, starts,
                   monVars, ingestVars, findVars, pipeVars, parseVars, apiVars>>

\* the gather is over: keep the created tasks, open the start_task gather
CollectTasks ==
    /\ pc = "create_tasks"
    /\ \A k \in 1..Len(target_results) : tasks[k] # Pending
    /\ task_results' = FilterOk(target_results, tasks, 1)
    /\ starts' = [k \in 1..Len(task_results') |-> Pending]
    /\ pc' = "start_tasks"
    /\ event' = [op |-> "collect_tasks", id |-> 0, res |-> None, body |-> <<>>]
    /\ UNCHANGED <<entry, targets, created, target_results, tasks, calls,
                   monVars, ingestVars, findVars, pipeVars, parseVars, apiVars>>

\* a start_task call that failed is issued again
StartTask_RetryFailed(k) ==
    /\ pc = "start_tasks"
    /\ k \in 1..Len(task_results)
    /\ starts[k] = Pending
    /\ \E r \in {Exc} \cup StartResponses :
        /\ starts' = [starts EXCEPT ![k] = IF r = Exc THEN Pending ELSE r]
        /\ event' = [op |-> "start_task", id |-> task_results[k], res |-> r, body |-> <<>>]
    /\ Issue("start_task", task_results[k])
    /\ UNCHANGED <<entry, targets, pc, created, target_results, tasks, task_results,
                   monVars, ingestVars, findVars, pipeVars, parseVars, apiVars>>

\* one start_task call of the third gather ends
StartTask(k) ==
    /\ pc = "start_tasks"
    /\ k \in 1..Len(task_results)
    /\ starts[k] = Pending
    /\ \E r \in {Exc} \cup StartResponses :
        /\ starts' = [starts EXCEPT ![k] = r]
        /\ event' = [op |-> "start_task", id |-> task_results[k], res |-> r, body |-> <<>>]
    /\ Issue("start_task", task_results[k])
    /\ UNCHANGED <<entry, targets, pc, created, target_results, tasks, task_results,
                   monVars, ingestVars, findVars, pipeVars, parseVars, apiVars>>

\* scan_targets: build task_info from the started tasks and enter the monitor
ScanTargetsMonitor ==
    /\ pc = "start_tasks"
    /\ entry = "scan_targets"
    /\ \A k \in 1..Len(task_results) : starts[k] # Pending
    /\ task_info' = BuildTaskInfo(task_results, starts, 1)
    /\ pc' = "monitor_sleep"
    /\ event' = [op |-> "monitor_start", id |-> 0, res |-> None, body |-> <<>>]
    /\ UNCHANGED <<entry, targets, scanVars, calls, idx, report_xml,
                   nSet, polled, scriptPos, ingestVars, findVars, pipeVars, parseVars, apiVars>>

\* worker.run with mode 5: log the start results and return
WorkerRunReturn ==
    /\ pc = "start_tasks"
    /\ entry = "worker_run"
    /\ \A k \in 1..Len(task_results) : starts[k] # Pending
    /\ pc' = "returned"
    /\ event' = [op |-> "return", id |-> 0, res |-> None, body |-> <<>>]
    /\ UNCHANGED <<entry, targets, scanVars, calls, monVars, ingestVars, findVars, pipeVars, parseVars, apiVars>>

\* ---------------------------------------------------- monitor_task_queue
\* mutant of LoopExit: the loop ends as soon as one entry is completed
LoopExit_AnyCompleted(info) ==
    Len(info) = 0 \/ \E i \in 1..Len(info) : info[i].completed

\* mutant of LoopExit: the loop ends only on a completed entry
LoopExit_NeedsTask(info) ==
    Len(info) > 0 /\ \A i \in 1..Len(info) : info[i].completed

\* "completed_count == total_count": the loop's exit test
LoopExit(info) == \A i \in 1..Len(info) : info[i].completed

\* mutant of SkipTask: completed entries are polled like the others
SkipTask_Never(task) == FALSE

\* "if task["completed"]: continue"
SkipTask(task) == task.completed

\* mutant of StatusOutcome: Running is handled like Done
StatusOutcome_RunningFetches(status, report_id) ==
    IF status \in {"Done", "Stopped", "Running"}
    THEN (IF Truthy(report_id) THEN "fetch" ELSE "complete")
    ELSE IF status \in {"Failed", "Interrupted"} THEN "complete"
    ELSE "continue"

\* mutant of StatusOutcome: Failed and Interrupted are handled like Done
StatusOutcome_AbortFetches(status, report_id) ==
    IF status \in {"Done", "Stopped", "Failed", "Interrupted"}
    THEN (IF Truthy(report_id) THEN "fetch" ELSE "complete")
    ELSE "continue"

\* mutant of StatusOutcome: the elif for Failed and Interrupted is missing
StatusOutcome_AbortIgnored(status, report_id) ==
    IF status \in {"Done", "Stopped"}
    THEN (IF Truthy(report_id) THEN "fetch" ELSE "complete")
    ELSE "continue"

\* what the monitor does with a polled status (the if / elif chain):
\* fetch the report, mark the task completed, or leave it for the next poll
StatusOutcome(status, report_id) ==
    IF status \in {"Done", "Stopped"}
    THEN (IF Truthy(report_id) THEN "fetch" ELSE "complete")
    ELSE IF status \in {"Failed", "Interrupted"} THEN "complete"
    ELSE "continue"

\* the for loop moves past position i: the next position, or the next sleep
LoopNext(i) ==
    IF i < Len(task_info)
    THEN pc' = "for_task" /\ idx' = i + 1
    ELSE pc' = "monitor_sleep" /\ idx' = 0

\* mutant of AfterStatusError: the exception ends the pass over task_info
AfterStatusError_Break(i) == pc' = "monitor_sleep" /\ idx' = 0

\* where the loop goes when get_task_status raised for position i
AfterStatusError(i) == LoopNext(i)

\* task["completed"] = True for position i
SetCompleted(i) ==
    /\ task_info' = [task_info EXCEPT ![i].completed = TRUE]
    /\ nSet' = [nSet EXCEPT ![task_info[i].task_id] = @ + 1]

\* the handling of position i ends with the entry marked completed
Complete(i) ==
    /\ SetCompleted(i)
    /\ report_xml' = <<>>
    /\ LoopNext(i)

\* mutant of OnFetchError: the entry is left for the next poll
OnFetchError_Retry(i) ==
    /\ LoopNext(i)
    /\ report_xml' = <<>>
    /\ UNCHANGED <<task_info, nSet>>

\* mutant of OnFetchError: the entry is marked completed and the pass over
\* task_info ends there
OnFetchError_Break(i) ==
    /\ SetCompleted(i)
    /\ report_xml' = <<>>
    /\ pc' = "monitor_sleep" /\ idx' = 0

\* the "except Exception" around the report handling: the fetch, the file
\* write or the ingestion raised, and the entry is marked completed
OnFetchError(i) == Complete(i)

\* the sleep ended: leave the loop, or start one more pass over task_info
MonitorCheck ==
    /\ pc = "monitor_sleep"
    /\ IF LoopExit(task_info)
       THEN pc' = "monitor_returned" /\ UNCHANGED <<idx, polled>>
       ELSE pc' = "for_task" /\ idx' = 1 /\ polled' = {}
    /\ event' = [op |-> "sleep", id |-> 0, res |-> None, body |-> <<>>]
    /\ UNCHANGED <<entry, targets, scanVars, calls, task_info,
                   report_xml, nSet, scriptPos, ingestVars, findVars, pipeVars, parseVars, apiVars>>

\* the for loop meets an entry that is completed already
SkipCompleted ==
    /\ pc = "for_task"
    /\ SkipTask(task_info[idx])
    /\ LoopNext(idx)
    /\ event' = [op |-> "skip", id |-> task_info[idx].task_id, res |-> None, body |-> <<>>]
    /\ UNCHANGED <<entry, targets, scanVars, calls, task_info,
                   report_xml, nSet, polled, scriptPos, ingestVars, findVars, pipeVars, parseVars, apiVars>>

StatusAnswers == {Exc, NoField} \cup RemoteStatuses

\* get_task_status for the entry at idx, and the branch taken on its answer
GetTaskStatus(answer) ==
    /\ pc = "for_task"
    /\ ~SkipTask(task_info[idx])
    /\ answer \in StatusAnswers
    /\ polled' = polled \cup {idx}
    /\ scriptPos' = [scriptPos EXCEPT ![idx] = ScriptStep(@, answer)]
    /\ event' = [op |-> "get_task_status", id |-> task_info[idx].task_id,
                 res |-> answer, body |-> <<>>]
    /\ IF answer = Exc
       THEN /\ AfterStatusError(idx)
            /\ UNCHANGED <<task_info, nSet, report_xml>>
       ELSE LET current_status == CurrentStatus(answer)
                todo == StatusOutcome(current_status, task_info[idx].report_id)
            IN CASE todo = "fetch" ->
                      /\ pc' = "fetch_report"
                      /\ UNCHANGED <<idx, task_info, nSet, report_xml>>
                 [] todo = "complete" -> Complete(idx)
                 [] OTHER ->
                      /\ LoopNext(idx)
                      /\ UNCHANGED <<task_info, nSet, report_xml>>
    /\ UNCHANGED <<entry, targets, scanVars, calls, ingestVars, findVars, pipeVars, parseVars, apiVars>>

\* get_report for the entry at idx, and the branch taken on its answer
FetchReport(raised, body) ==
    /\ pc = "fetch_report"
    /\ raised \in BOOLEAN
    /\ body \in Bodies
    /\ raised => body = <<>>
    /\ Issue("get_report", task_info[idx].task_id)
    /\ event' = [op |-> "get_report", id |-> task_info[idx].task_id,
                 res |-> IF raised THEN Exc ELSE "ok", body |-> body]
    /\ IF raised
       THEN OnFetchError(idx)
       ELSE IF HasContent(body)
            THEN /\ report_xml' = body
                 /\ pc' = "write_file"
                 /\ UNCHANGED <<idx, task_info, nSet>>
            ELSE Complete(idx)
    /\ UNCHANGED <<entry, targets, scanVars, polled, scriptPos, ingestVars, findVars, pipeVars, parseVars, apiVars>>

\* the report is written to its file, or the write raises
WriteFile(ok) ==
    /\ pc = "write_file"
    /\ ok \in BOOLEAN
    /\ event' = [op |-> "write_file", id |-> task_info[idx].task_id,
                 res |-> IF ok THEN "ok" ELSE Exc, body |-> <<>>]
    /\ IF ok
       THEN /\ files' = files \cup {task_info[idx].task_id}
            /\ pc' = "parse"
            /\ UNCHANGED <<idx, task_info, nSet, report_xml>>
       ELSE /\ OnFetchError(idx)
            /\ UNCHANGED files
    /\ UNCHANGED <<entry, targets, scanVars, calls, polled, scriptPos,
                   vulnerabilities, sink, nParse, findVars, pipeVars, parseVars, apiVars>>

\* n records of this task's report
NewRecords(task, n) == [k \in 1..n |-> task]

ParseEndings == {"parse_error", "done", "raised"}

\* how many records one ingestion call can create: none when ET.parse raises
\* ParseError, as many as the report has usable findings otherwise
FindingsOf(ending) == IF ending = "parse_error" THEN {0} ELSE 0..MaxFindings

\* mutant of InsertsOf: the "return" of the ParseError handler is missing
InsertsOf_NoReturn(ending, all) ==
    IF ending = "raised" THEN 0..(IF Len(all) = 0 THEN 0 ELSE Len(all) - 1)
    ELSE {Len(all)}

\* how many sink inserts one ingestion call can make: none when it returns on
\* the parse error, all of self.vulnerabilities when it runs to its end, fewer
\* when it raises
InsertsOf(ending, all) ==
    CASE ending = "parse_error" -> {0}
      [] ending = "done" -> {Len(all)}
      [] OTHER -> 0..(IF Len(all) = 0 THEN 0 ELSE Len(all) - 1)

\* parse_results_to_vulns on the written file: it returns on a parse error,
\* runs to its end, or raises part-way; n records are created and the first
\* j records of self.vulnerabilities reach the sink
ParseResults(ending, n, j) ==
    /\ pc = "parse"
    /\ ending \in ParseEndings
    /\ n \in 0..MaxFindings
    /\ LET task == task_info[idx].task_id
           all == vulnerabilities \o NewRecords(task, n)
       IN /\ n \in FindingsOf(ending)
          /\ j \in InsertsOf(ending, all)
          /\ vulnerabilities' = all
          /\ sink' = sink \o SubSeq(all, 1, j)
          /\ nParse' = [nParse EXCEPT ![task] = @ + 1]
          /\ event' = [op |-> "parse", id |-> task, res |-> ending, body |-> <<>>]
    /\ IF ending = "raised" THEN OnFetchError(idx) ELSE Complete(idx)
    /\ UNCHANGED <<entry, targets, scanVars, calls, polled, scriptPos,
                   files, findVars, pipeVars, parseVars, apiVars>>

\* the monitor has returned: scan_targets logs and returns
ScanTargetsReturn ==
    /\ pc = "monitor_returned"
    /\ pc' = "returned"
    /\ event' = [op |-> "return", id |-> 0, res |-> None, body |-> <<>>]
    /\ UNCHANGED <<entry, targets, scanVars, calls, monVars, ingestVars, findVars, pipeVars, parseVars, apiVars>>

\* ------------------------------------------------------------------- Next
Next ==
    \/ \E k \in Ids : CreateTarget(k)
    \/ CollectTargets
    \/ \E k \in Ids : CreateTask(k)
    \/ CollectTasks
    \/ \E k \in Ids : StartTask(k)
    \/ ScanTargetsMonitor
    \/ WorkerRunReturn
    \/ MonitorCheck
    \/ SkipCompleted
    \/ \E answer \in StatusAnswers : GetTaskStatus(answer)
    \/ \E raised \in BOOLEAN, body \in Bodies : FetchReport(raised, body)
    \/ \E ok \in BOOLEAN : WriteFile(ok)
    \/ \E ending \in ParseEndings, n \in 0..MaxFindings, j \in 0..(MaxTargets * MaxFindings) :
          ParseResults(ending, n, j)
    \/ ScanTargetsReturn

Spec == Init /\ [][Next]_vars

\* the polling loop runs on, and every tracked task's status call succeeds
\* with a terminal status again and again until the task is completed
TerminalAnswer(i) ==
    \E answer \in TerminalStatuses : idx = i /\ GetTaskStatus(answer)

LiveSpec ==
    /\ Init /\ [][Next]_vars
    /\ WF_vars(Next)
    /\ \A i \in Ids : SF_vars(TerminalAnswer(i))

\* ===================================================================
\* parse_results_to_vulns, result by result
\* ===================================================================
\* A title is a sequence of text fragments, blanks included; a title contains
\* a denylist entry when the entry's fragments occur in it side by side.
WeakCipherSuites == <<"Weak", " ", "Cipher", " ", "Suites", " ", "Supported">>
SslWeakCiphers == <<"SSL", " ", "Weak", " ", "Cipher", "s">>
CipherWeak == <<"Cipher", " ", "Weak">>
OpenSshRce == <<"OpenSSH", " ", "RCE">>
Titles == {WeakCipherSuites, SslWeakCiphers, CipherWeak, OpenSshRce}
\* the title of a <result> that has no <name> element
NoName == <<NoField>>

\* the list of "Skip known false positives"; the backquotes around the word
\* secure are spelled out
Denylist ==
    { <<"httpOnly">>,
      <<"Certificate", " ", "Expired">>,
      <<"Weak", " ", "Encryption">>,
      <<"Missing", " ", "(backquote)secure(backquote)">>,
      <<"VNC", " ", "Server", " ", "Unencrypted">>,
      <<"Weak", " ", "Cipher">>,
      <<"Vulnerable", " ", "Cipher">> }

\* mutant of Contains: the title is compared with the entry as a whole
Contains_WholeTitle(name, skip) == name = skip

\* "skip in name"
Contains(name, skip) ==
    \E o \in 0..(Len(name) - Len(skip)) : SubSeq(name, o + 1, o + Len(skip)) = skip

\* "any(skip in name for skip in [...])"
IsFalsePositive(name) == \E skip \in Denylist : Contains(name, skip)

RealCve == "CVE-2023-0001"
NoCve == "NOCVE"

\* A <result> element: its <name> text (or none), the text of nvt/cve (or
\* none), and which of the elements read without a guard it lacks: one read
\* before the feed query (port, threat, severity, description) or one read
\* after it (host, qod/value, or a qod value that is no integer).
\* The elements after <name> are not read for a result without a name.
Lacks == {"none", "early", "late"}
Findings ==
    {[name |-> NoName, cve |-> NoCve, lacks |-> "none"]}
    \cup [name : {WeakCipherSuites, SslWeakCiphers}, cve : {RealCve, NoCve}, lacks : {"none"}]
    \cup [name : {CipherWeak, OpenSshRce}, cve : {RealCve, NoCve, NoField}, lacks : Lacks]

\* report files: one that is not well-formed XML, and the well-formed ones
\* with up to MaxResults <result> elements
ReportFiles ==
    {[wellformed |-> FALSE, results |-> <<>>]}
    \cup {[wellformed |-> TRUE, results |-> rs] :
            rs \in UNION {[1..n -> Findings] : n \in 0..MaxResults}}

\* mutant of CveOf: the except branch leaves an empty CVE id
CveOf_AbsentIsEmpty(finding) == IF finding.cve = NoField THEN "" ELSE finding.cve

\* "cve = nvt.find('cve').text", "NOCVE" when that raises
CveOf(finding) == IF finding.cve = NoField THEN NoCve ELSE finding.cve

\* what the request to the scoring feed can give: an exception, a status
\* other than 200, an empty data list, an entry without percentile, or an
\* entry with one of these percentile texts
PercentileTexts == {"0.80", "0.40", "0.65", "0.64", "n/a"}
FeedAnswers == {Exc, "non200", "nodata", "nokey"} \cup PercentileTexts

\* float(text) raises ValueError for a text that is no number
FloatRaises(text) == text \notin {"0.80", "0.40", "0.65", "0.64"}

\* float(text) in hundredths
Float(text) ==
    CASE text = "0.80" -> 80
      [] text = "0.40" -> 40
      [] text = "0.65" -> 65
      [] text = "0.64" -> 64

\* the threshold of "if epss >= 0.65", in hundredths
EpssThreshold == 65

\* mutant of AfterFeed: the request and the conversion are not inside a try
AfterFeed_Unguarded(answer) ==
    CASE answer \in {"non200", "nodata"} ->
            [epss |-> 0, exploit |-> FALSE, raised |-> FALSE]
      [] answer = Exc -> [epss |-> 0, exploit |-> FALSE, raised |-> TRUE]
      [] answer = "nokey" -> [epss |-> 0, exploit |-> 0 >= EpssThreshold, raised |-> FALSE]
      [] OTHER ->
            LET v == Float(answer)
            IN IF FloatRaises(answer)
               THEN [epss |-> 0, exploit |-> FALSE, raised |-> TRUE]
               ELSE [epss |-> v, exploit |-> v >= EpssThreshold, raised |-> FALSE]

\* the locals epss and exploit after the try block of the feed query, which
\* lets no exception out
AfterFeed(answer) ==
    CASE answer \in {Exc, "non200", "nodata"} ->
            [epss |-> 0, exploit |-> FALSE, raised |-> FALSE]
      [] answer = "nokey" -> [epss |-> 0, exploit |-> 0 >= EpssThreshold, raised |-> FALSE]
      [] OTHER ->
            LET v == Float(answer)
            IN IF FloatRaises(answer)
               THEN [epss |-> 0, exploit |-> FALSE, raised |-> FALSE]
               ELSE [epss |-> v, exploit |-> v >= EpssThreshold, raised |-> FALSE]

\* the values read from the elements that carry no decision
HostText == "10.0.0.5"
SeverityText == "7.5"
ThreatText == "High"
DescriptionText == "description"
QodValue == 80

\* the keyword arguments of the two Vulnerability(...) calls; a record is the
\* arguments it was built from, and the result it was built for
CommonArgs(name) ==
    [title |-> name, affected_item |-> HostText, tool |-> "OpenVAS",
     confidence |-> QodValue, severity |-> SeverityText, host |-> HostText]

VulnWithCve(k, name, cve) ==
    [finding |-> k,
     args |-> [key \in DOMAIN CommonArgs(name) \cup {"cve_number"} |->
                  IF key = "cve_number" THEN cve ELSE CommonArgs(name)[key]]]

VulnNoCve(k, name, score) ==
    [finding |-> k,
     args |-> [key \in DOMAIN CommonArgs(name)
                        \cup {"summary", "impact", "solution", "poc", "cvss", "epss"} |->
                  CASE key \in {"summary", "poc"} -> DescriptionText
                    [] key = "impact" -> ThreatText
                    [] key = "solution" -> ""
                    [] key = "cvss" -> SeverityText
                    [] key = "epss" -> score
                    [] OTHER -> CommonArgs(name)[key]]]

\* the record built for a result: the shape follows "if cve != "NOCVE""
BuildVuln(k, name, cve, score) ==
    IF cve # NoCve THEN VulnWithCve(k, name, cve) ELSE VulnNoCve(k, name, score)

\* the exploitable flag and the exploit score of a record: what its
\* constructor was given, and the defaults otherwise
Exploitable(rec) ==
    IF "exploitable" \in DOMAIN rec.args THEN rec.args["exploitable"] ELSE FALSE
ScoreOf(rec) == IF "epss" \in DOMAIN rec.args THEN rec.args["epss"] ELSE 0

\* a record an earlier report of the same scanner left in self.vulnerabilities
EarlierRecord == VulnNoCve(0, OpenSshRce, 0)

runVars == <<entry, targets, scanVars, calls, monVars, files, nParse>>

\* parse_results_to_vulns is called on a report file, by a scanner that has
\* ingested no report yet or one report with one record; that record was
\* inserted, or the earlier ingestion raised before its insert loop
IngestInit ==
    /\ report \in ReportFiles
    /\ vulnerabilities \in {<<>>, <<EarlierRecord>>}
    /\ sink \in {<<>>, vulnerabilities}
    /\ pc = "ingest_parse"
    /\ pos = 0
    /\ ipos = 0
    /\ skipped_count = 0
    /\ vulnerability_count = 0
    /\ epss = 0
    /\ exploit = FALSE
    /\ feed = [k \in 1..MaxResults |-> None]
    /\ NoPipeline
    /\ NoParse
    /\ NoApi
    /\ event = [op |-> "init", id |-> 0, res |-> None, body |-> <<>>]
    /\ entry = "scan_targets"
    /\ targets = <<>>
    /\ created = <<>>
    /\ target_results = <<>>
    /\ tasks = <<>>
    /\ task_results = <<>>
    /\ starts = <<>>
    /\ task_info = <<>>
    /\ idx = 0
    /\ report_xml = <<>>
    /\ files = {}
    /\ calls = [op \in Ops |-> [t \in Ids |-> 0]]
    /\ nParse = [t \in Ids |-> 0]
    /\ nSet = [t \in Ids |-> 0]
    /\ polled = {}
    /\ scriptPos = [i \in Ids |-> 0]

\* ET.parse: return on a ParseError, else set the counters and open the loop
ParseXml ==
    /\ pc = "ingest_parse"
    /\ IF report.wellformed
       THEN pc' = "ingest_loop" /\ pos' = 1
       ELSE pc' = "ingest_returned" /\ UNCHANGED pos
    /\ event' = [op |-> "et_parse", id |-> 0,
                 res |-> IF report.wellformed THEN "ok" ELSE "parse_error", body |-> <<>>]
    /\ UNCHANGED <<report, ipos, skipped_count, vulnerability_count, epss, exploit, feed,
                   vulnerabilities, sink, runVars, pipeVars, parseVars, apiVars>>

\* the loop body leaves the result at pos behind, with "continue" or at its end
NextResult == pos' = pos + 1 /\ pc' = pc

\* mutant of LacksElement: .text of a missing element does not raise
LacksElement_Never(finding) == FALSE

\* result.find(...) gave None for port, threat, severity, description, host
\* or the qod value: .text on it raises AttributeError, outside any try
LacksElement(finding) == finding.lacks # "none"

\* mutant of FeedAsked: the feed is asked for every result
FeedAsked_Always(cve) == TRUE

\* "if cve != "NOCVE"" before the feed query
FeedAsked(cve) == cve # NoCve

\* one pass of the loop body. answer is what the scoring feed gives when it
\* is asked, None when it is not asked.
ProcessResult(answer) ==
    /\ pc = "ingest_loop"
    /\ pos <= Len(report.results)
    /\ answer \in FeedAnswers \cup {None}
    /\ LET finding == report.results[pos]
           cve == CveOf(finding)
           asked == /\ finding.name # NoName
                    /\ ~IsFalsePositive(finding.name)
                    /\ finding.lacks # "early"
                    /\ FeedAsked(cve)
           after == IF asked THEN AfterFeed(answer)
                    ELSE [epss |-> 0, exploit |-> FALSE, raised |-> FALSE]
       IN /\ asked <=> answer # None
          /\ feed' = [feed EXCEPT ![pos] = answer]
          /\ event' = [op |-> "result", id |-> pos, res |-> answer, body |-> <<>>]
          /\ IF finding.name = NoName
             THEN /\ NextResult
                  /\ UNCHANGED <<skipped_count, vulnerability_count, epss, exploit,
                                 vulnerabilities>>
             ELSE IF IsFalsePositive(finding.name)
             THEN /\ skipped_count' = skipped_count + 1
                  /\ NextResult
                  /\ UNCHANGED <<vulnerability_count, epss, exploit, vulnerabilities>>
             ELSE /\ epss' = after.epss
                  /\ exploit' = after.exploit
                  /\ IF LacksElement(finding) \/ after.raised
                     THEN /\ pc' = "ingest_raised"
                          /\ UNCHANGED <<pos, skipped_count, vulnerability_count,
                                         vulnerabilities>>
                     ELSE /\ vulnerabilities' =
                                Append(vulnerabilities,
                                       BuildVuln(pos, finding.name, cve, after.epss))
                          /\ vulnerability_count' = vulnerability_count + 1
                          /\ NextResult
                          /\ UNCHANGED skipped_count
    /\ UNCHANGED <<report, ipos, sink, runVars, pipeVars, parseVars, apiVars>>

\* the loop over the results is over: open the insert loop
ResultsDone ==
    /\ pc = "ingest_loop"
    /\ pos > Len(report.results)
    /\ pc' = "ingest_insert"
    /\ ipos' = 1
    /\ event' = [op |-> "results_done", id |-> 0, res |-> None, body |-> <<>>]
    /\ UNCHANGED <<report, pos, skipped_count, vulnerability_count, epss, exploit, feed,
                   vulnerabilities, sink, runVars, pipeVars, parseVars, apiVars>>

\* what one call of the sink gives: True, False, or an exception
InsertOutcomes == {"ok", "false", Exc}

\* one insert_vulnerability_to_database call of the insert loop: it returns
\* (the returned value is not read), or it raises and the exception leaves
\* parse_results_to_vulns
InsertVulnerability(outcome) ==
    /\ pc = "ingest_insert"
    /\ ipos <= Len(vulnerabilities)
    /\ outcome \in InsertOutcomes
    /\ event' = [op |-> "insert", id |-> ipos, res |-> outcome, body |-> <<>>]
    /\ IF outcome = Exc
       THEN pc' = "ingest_raised" /\ UNCHANGED <<ipos, sink>>
       ELSE /\ sink' = Append(sink, vulnerabilities[ipos])
            /\ ipos' = ipos + 1
            /\ pc' = pc
    /\ UNCHANGED <<report, pos, skipped_count, vulnerability_count, epss, exploit, feed,
                   vulnerabilities, runVars, pipeVars, parseVars, apiVars>>

\* the insert loop is over: log the counters and return
IngestReturn ==
    /\ pc = "ingest_insert"
    /\ ipos > Len(vulnerabilities)
    /\ pc' = "ingest_returned"
    /\ event' = [op |-> "return", id |-> 0, res |-> None, body |-> <<>>]
    /\ UNCHANGED <<report, pos, ipos, skipped_count, vulnerability_count, epss, exploit,
                   feed, vulnerabilities, sink, runVars, pipeVars, parseVars, apiVars>>

\* the thread a blocking call of parse_results_to_vulns runs on: the
\* coroutine calls ET.parse, requests.get and the sink itself, none of them
\* through run_in_executor
CalledOn(op) ==
    CASE op = "et_parse" -> "loop"
      [] op = "result" -> "loop"
      [] op = "insert" -> "loop"
      [] OTHER -> "pool"

IngestNext ==
    \/ ParseXml
    \/ \E answer \in FeedAnswers \cup {None} : ProcessResult(answer)
    \/ ResultsDone
    \/ \E outcome \in InsertOutcomes : InsertVulnerability(outcome)
    \/ IngestReturn

IngestSpec == IngestInit /\ [][IngestNext]_vars

\* ===================================================================
\* Modes 1 to 4 and mode numbers outside 1..5
\*
\* worker.run and the BaseScanner subclasses launch scan jobs (bbot,
\* rustscan, nuclei, the WordPress detector and the WordPress nuclei scan)
\* and await them, one by one or with asyncio.gather. A job is launched in
\* one step and ends in a later step, done or failed as the environment
\* chooses. asyncio.gather is called without return_exceptions: its awaiter
\* goes on when every awaitable has finished, and is raised into as soon as
\* one awaitable has raised, whatever the others are doing.
\* ===================================================================
MaxMode == 6    \* the mode numbers are 0..MaxMode
Modes == 0..MaxMode
Runners == {"worker", "scanner"}
\* a file: missing, of size 0, of blank lines only, or with entries
FileStates == {"absent", "empty", "blank", "content"}
\* what WordPressDetector.run can return
SiteLists == {<<>>, <<"wp1">>, <<"wp1", "wp2">>}

\* scanner_map.get(mode)
ScannerMap_Default(m) == "PassiveScanner"

ScannerMap(m) ==
    CASE m = 1 -> "PassiveScanner"
      [] m = 2 -> "NormalScanner"
      [] m = 3 -> "AggressiveScanner"
      [] m = 4 -> "AttackSurfaceScanner"
      [] m = 5 -> "OpenVASScanner"
      [] OTHER -> None

\* the mode-5 scanner is not in use
NoScan ==
    /\ entry = "scan_targets"
    /\ targets = <<>>
    /\ created = <<>>
    /\ target_results = <<>>
    /\ tasks = <<>>
    /\ task_results = <<>>
    /\ starts = <<>>
    /\ task_info = <<>>
    /\ idx = 0
    /\ report_xml = <<>>
    /\ files = {}
    /\ vulnerabilities = <<>>
    /\ sink = <<>>
    /\ calls = [op \in Ops |-> [t \in Ids |-> 0]]
    /\ nParse = [t \in Ids |-> 0]
    /\ nSet = [t \in Ids |-> 0]
    /\ polled = {}
    /\ scriptPos = [i \in Ids |-> 0]
    /\ report = [wellformed |-> FALSE, results |-> <<>>]
    /\ pos = 0
    /\ ipos = 0
    /\ skipped_count = 0
    /\ vulnerability_count = 0
    /\ epss = 0
    /\ exploit = FALSE
    /\ feed = [k \in 1..MaxResults |-> None]

\* main constructs worker and runs worker.run; a caller of the factory asks
\* create_scanner for the scanner of the mode and runs it
PipeInit ==
    /\ runner \in Runners
    /\ mode \in Modes
    /\ pc = IF runner = "scanner" THEN "create_scanner" ELSE "run"
    /\ scanner = None
    /\ job = [j \in JobNames |-> "idle"]
    /\ reads = [j \in JobNames |-> None]
    /\ subdomains_file = None
    /\ ips_file = None
    /\ wordpress_domains = NoSites
    /\ wordpress_targets = NoSites
    /\ warned = {}
    /\ error_logged = FALSE
    /\ ended_at_launch = [j \in JobNames |-> {}]
    /\ launches = [j \in JobNames |-> 0]
    /\ result = NoResult
    /\ event = [op |-> "init", id |-> 0, res |-> None, body |-> <<>>]
    /\ NoParse
    /\ NoScan
    /\ NoApi

otherVars == <<runVars, findVars, vulnerabilities, sink, parseVars, apiVars>>

\* the jobs that ran and ended
Ended == {j \in JobNames : job[j] \in {"done", "failed"}}

\* what a job is constructed with
Reads(j) ==
    CASE j = "bbot" -> "targets"
      [] j = "rustscan" -> IF mode = 4 THEN "ips_file" ELSE "all_scan_targets"
      [] j = "nuclei" -> "subdomains_file"
      [] j = "wordpress_detector" -> "subdomains_file"
      [] j = "wordpress_nuclei" -> "wordpress_domains"

\* one step of the event loop: the jobs of stop end with the status, the jobs
\* of go are launched and the jobs of skip return without running
Move(stop, status, go, skip) ==
    LET ended == Ended \cup (IF status \in {"done", "failed"} THEN stop ELSE {})
    IN /\ job' = [j \in JobNames |->
                    IF j \in stop THEN status
                    ELSE IF j \in go THEN "running"
                    ELSE IF j \in skip THEN "skipped"
                    ELSE job[j]]
       /\ reads' = [j \in JobNames |-> IF j \in go THEN Reads(j) ELSE reads[j]]
       /\ ended_at_launch' = [j \in JobNames |->
                                IF j \in go THEN ended ELSE ended_at_launch[j]]
       /\ launches' = [j \in JobNames |->
                         IF j \in go THEN launches[j] + 1 ELSE launches[j]]

Note(op, res) == event' = [op |-> op, id |-> 0, res |-> res, body |-> <<>>]

\* create_scanner: no scanner for a mode that scanner_map does not hold
CreateScanner ==
    /\ pc = "create_scanner"
    /\ scanner' = ScannerMap(mode)
    /\ pc' = IF ScannerMap(mode) = None THEN "no_scanner" ELSE "run"
    /\ Note("create_scanner", ScannerMap(mode))
    /\ UNCHANGED <<runner, mode, job, reads, subdomains_file, ips_file, wordpress_domains,
                   wordpress_targets, warned, error_logged, ended_at_launch, launches,
                   result, otherVars>>

\* worker.run, the else branch: the mode is none of 3, 2, 1, 4, 5
RunInvalidMode ==
    /\ pc = "run"
    /\ mode \notin 1..5
    /\ error_logged' = TRUE
    /\ pc' = "returned"
    /\ Note("invalid_mode", None)
    /\ UNCHANGED <<runner, mode, scanner, job, reads, subdomains_file, ips_file,
                   wordpress_domains, wordpress_targets, warned, ended_at_launch,
                   launches, result, otherVars>>

\* mode 5 goes to the remote scanner
RunMode5 ==
    /\ pc = "run"
    /\ mode = 5
    /\ pc' = "mode5"
    /\ Note("mode5", None)
    /\ UNCHANGED <<pipeVars, otherVars>>

\* the jobs a mode launches first
Stage1Jobs_BbotOnly(m) == {"bbot"}

Stage1Jobs(m) ==
    CASE m = 1 -> {"bbot"}
      [] m = 2 -> {"bbot", "rustscan"}
      [] m = 3 -> {"rustscan", "bbot"}
      [] m = 4 -> {"bbot"}

\* modes 1 to 4: launch the first jobs and await them
RunStage1 ==
    /\ pc = "run"
    /\ mode \in 1..4
    /\ Move({}, "done", Stage1Jobs(mode), {})
    /\ pc' = "stage1"
    /\ Note("launch", "stage1")
    /\ UNCHANGED <<runner, mode, scanner, subdomains_file, ips_file, wordpress_domains,
                   wordpress_targets, warned, error_logged, result, otherVars>>

\* bbot ends; in modes 3 and 4 the files its result names are in some state
BbotEnd(ok, subs, ips) ==
    /\ job["bbot"] = "running"
    /\ subs \in (IF ok /\ mode \in {3, 4} THEN FileStates ELSE {None})
    /\ ips \in (IF ok /\ mode = 4 THEN FileStates ELSE {None})
    /\ Move({"bbot"}, IF ok THEN "done" ELSE "failed", {}, {})
    /\ subdomains_file' = subs
    /\ ips_file' = ips
    /\ Note("end", "bbot")
    /\ UNCHANGED <<runner, mode, scanner, pc, wordpress_domains, wordpress_targets,
                   warned, error_logged, result, otherVars>>

\* rustscan, nuclei or the WordPress nuclei scan ends
JobEnd(j, ok) ==
    /\ j \in {"rustscan", "nuclei", "wordpress_nuclei"}
    /\ job[j] = "running"
    /\ Move({j}, IF ok THEN "done" ELSE "failed", {}, {})
    /\ Note("end", j)
    /\ UNCHANGED <<runner, mode, scanner, pc, subdomains_file, ips_file,
                   wordpress_domains, wordpress_targets, warned, error_logged,
                   result, otherVars>>

\* the sites the WordPress nuclei scan is launched with
WordpressTargets(sites) == sites

\* whether the WordPress nuclei scan follows the detector
ScanWordpress_Always(sites) == TRUE
ScanWordpress(sites) == sites # <<>>

\* WordPressDetector.run ends; when sites were returned the same coroutine
\* goes straight on to the WordPress nuclei scan
DetectorEnd(ok, sites) ==
    /\ job["wordpress_detector"] = "running"
    /\ sites \in (IF ok THEN SiteLists ELSE {NoSites})
    /\ IF ok /\ ScanWordpress(sites)
       THEN /\ Move({"wordpress_detector"}, "done", {"wordpress_nuclei"}, {})
            /\ wordpress_targets' = WordpressTargets(sites)
       ELSE /\ Move({"wordpress_detector"}, IF ok THEN "done" ELSE "failed", {}, {})
            /\ UNCHANGED wordpress_targets
    /\ wordpress_domains' = sites
    /\ Note("end", "wordpress_detector")
    /\ UNCHANGED <<runner, mode, scanner, pc, subdomains_file, ips_file, warned,
                   error_logged, result, otherVars>>

\* an awaited coroutine raised, or returned; the coroutine of the detector
\* includes the WordPress nuclei scan
CoFailed(j) ==
    \/ job[j] = "failed"
    \/ j = "wordpress_detector" /\ job["wordpress_nuclei"] = "failed"
CoFinished(j) ==
    IF j = "wordpress_detector"
    THEN \/ job[j] = "skipped"
         \/ job[j] = "done" /\ job["wordpress_nuclei"] \in {"idle", "done"}
    ELSE job[j] \in {"done", "skipped"}

\* gather(*aws): raises once one awaitable raised, returns once all returned
GatherRaises(aws) == \E j \in aws : CoFailed(j)
GatherReturns_Any(aws) == \E j \in aws : CoFinished(j)
GatherReturns(aws) == \A j \in aws : CoFinished(j)

pipeFrame == <<runner, mode, scanner, subdomains_file, ips_file, wordpress_domains,
               wordpress_targets, error_logged, otherVars>>
jobFrame == <<job, reads, ended_at_launch, launches>>

\* the await of the first jobs raises
Stage1Raise ==
    /\ pc = "stage1"
    /\ GatherRaises(Stage1Jobs(mode))
    /\ pc' = "raised"
    /\ Note("raise", "stage1")
    /\ UNCHANGED <<pipeFrame, jobFrame, warned, result>>

\* the keys of the dict a scanner's run() returns; worker.run returns None
ResultKeys ==
    IF runner = "worker" THEN NoResult
    ELSE CASE mode = 1 -> {"bbot_scanner"}
           [] mode = 2 -> {"bbot_results", "rustscan_results"}
           [] mode = 3 -> {"port_results", "bbot_results", "wordpress_domains"}
           [] mode = 4 -> {"bbot_results", "nuclei_results", "rustscan_results",
                           "wordpress_results"}

\* modes 1 and 2 return when the first jobs returned
Stage1Return ==
    /\ pc = "stage1"
    /\ mode \in {1, 2}
    /\ ~GatherRaises(Stage1Jobs(mode))
    /\ GatherReturns(Stage1Jobs(mode))
    /\ pc' = "returned"
    /\ Note("return", "stage1")
    /\ result' = ResultKeys
    /\ UNCHANGED <<pipeFrame, jobFrame, warned>>

\* AggressiveScanner.run: gather nuclei and the WordPress coroutine
AggressiveStage2 ==
    /\ pc = "stage1"
    /\ mode = 3 /\ runner = "scanner"
    /\ ~GatherRaises(Stage1Jobs(mode))
    /\ GatherReturns(Stage1Jobs(mode))
    /\ Move({}, "done", {"nuclei", "wordpress_detector"}, {})
    /\ pc' = "stage2"
    /\ Note("launch", "stage2")
    /\ UNCHANGED <<pipeFrame, warned, result>>

\* worker.run, mode 3: the nuclei coroutine is made and put in tasks, and
\* detect_wordpress is awaited before tasks is gathered
WorkerDetectWordpress ==
    /\ pc = "stage1"
    /\ mode = 3 /\ runner = "worker"
    /\ ~GatherRaises(Stage1Jobs(mode))
    /\ GatherReturns(Stage1Jobs(mode))
    /\ Move({}, "done", {"wordpress_detector"}, {})
    /\ pc' = "detect_wordpress"
    /\ Note("launch", "detect_wordpress")
    /\ UNCHANGED <<pipeFrame, warned, result>>

WorkerWordpressRaise ==
    /\ pc = "detect_wordpress"
    /\ CoFailed("wordpress_detector")
    /\ pc' = "raised"
    /\ Note("raise", "detect_wordpress")
    /\ UNCHANGED <<pipeFrame, jobFrame, warned, result>>

\* worker.run, mode 3: detect_wordpress returned, gather(*tasks) starts nuclei
WorkerGatherNuclei ==
    /\ pc = "detect_wordpress"
    /\ ~CoFailed("wordpress_detector")
    /\ CoFinished("wordpress_detector")
    /\ Move({}, "done", {"nuclei"}, {})
    /\ pc' = "stage2"
    /\ Note("launch", "stage2")
    /\ UNCHANGED <<pipeFrame, warned, result>>

\* the gates of the mode-4 follow-up jobs
HasSize(f) == f \in {"blank", "content"}
GateOpen_OtherFile(j) ==
    IF j = "rustscan" THEN HasSize(subdomains_file) ELSE ips_file = "content"

GateOpen(j) ==
    IF j = "rustscan" THEN ips_file = "content" ELSE HasSize(subdomains_file)

FollowUps == {"nuclei", "rustscan", "wordpress_detector"}
\* the follow-up jobs whose skip is logged as a warning
Warns(j) == ~(runner = "worker" /\ j = "wordpress_detector")

\* mode 4: gather the three follow-up coroutines; each checks its file first
AttackSurfaceStage2 ==
    /\ pc = "stage1"
    /\ mode = 4
    /\ ~GatherRaises(Stage1Jobs(mode))
    /\ GatherReturns(Stage1Jobs(mode))
    /\ LET go == {j \in FollowUps : GateOpen(j)}
       IN /\ Move({}, "done", go, FollowUps \ go)
          /\ warned' = {j \in FollowUps \ go : Warns(j)}
    /\ pc' = "stage2"
    /\ Note("launch", "stage2")
    /\ UNCHANGED <<pipeFrame, result>>

\* the awaitables of the last gather
Stage2Jobs ==
    CASE mode = 3 /\ runner = "scanner" -> {"nuclei", "wordpress_detector"}
      [] mode = 3 /\ runner = "worker" -> {"nuclei"}
      [] mode = 4 -> FollowUps
      [] OTHER -> {}

Stage2Raise ==
    /\ pc = "stage2"
    /\ GatherRaises(Stage2Jobs)
    /\ pc' = "raised"
    /\ Note("raise", "stage2")
    /\ UNCHANGED <<pipeFrame, jobFrame, warned, result>>

Stage2Return ==
    /\ pc = "stage2"
    /\ ~GatherRaises(Stage2Jobs)
    /\ GatherReturns(Stage2Jobs)
    /\ pc' = "returned"
    /\ Note("return", "stage2")
    /\ result' = ResultKeys
    /\ UNCHANGED <<pipeFrame, jobFrame, warned>>

\* asyncio.run(scanner.run()): when run raised, the tasks still pending are
\* cancelled before the exception leaves asyncio.run
LoopShutdown ==
    /\ runner = "worker"
    /\ pc = "raised"
    /\ \E j \in JobNames : job[j] = "running"
    /\ Move({j \in JobNames : job[j] = "running"}, "cancelled", {}, {})
    /\ Note("shutdown", None)
    /\ UNCHANGED <<pc, pipeFrame, warned, result>>

PipeNext ==
    \/ CreateScanner
    \/ RunInvalidMode
    \/ RunMode5
    \/ RunStage1
    \/ \E ok \in BOOLEAN : \E subs, ips \in FileStates \cup {None} : BbotEnd(ok, subs, ips)
    \/ \E j \in JobNames : \E ok \in BOOLEAN : JobEnd(j, ok)
    \/ \E ok \in BOOLEAN : \E sites \in SiteLists \cup {NoSites} : DetectorEnd(ok, sites)
    \/ Stage1Raise
    \/ Stage1Return
    \/ AggressiveStage2
    \/ WorkerDetectWordpress
    \/ WorkerWordpressRaise
    \/ WorkerGatherNuclei
    \/ AttackSurfaceStage2
    \/ Stage2Raise
    \/ Stage2Return
    \/ LoopShutdown

PipeSpec == PipeInit /\ [][PipeNext]_vars

\* the event loop keeps running what is ready, and every running job ends
PipeLiveSpec == PipeSpec /\ WF_vars(PipeNext)

\* ===================================================================
\* parse_targets and the run main starts after it
\* ===================================================================
MaxTargetLen == 4   \* longest target string, in characters
\* characters of a target string: letters, a blank, the delimiter
TargetChars == {"a", "b", " ", ","}
TargetStrings == UNION {[1..n -> TargetChars] : n \in 0..MaxTargetLen}

\* str.split(","): the pieces between the commas, empty pieces included
RECURSIVE SplitComma(_)
SplitComma(s) ==
    IF \A i \in 1..Len(s) : s[i] # ","
    THEN <<s>>
    ELSE LET i == CHOOSE i \in 1..Len(s) :
                      s[i] = "," /\ \A k \in 1..(i - 1) : s[k] # ","
         IN <<SubSeq(s, 1, i - 1)>> \o SplitComma(SubSeq(s, i + 1, Len(s)))

\* [target.strip() for target in pieces if target.strip()]
RECURSIVE StripKept(_)
StripKept(pieces) ==
    IF pieces = <<>> THEN <<>>
    ELSE (IF Strip(Head(pieces)) # <<>> THEN <<Strip(Head(pieces))>> ELSE <<>>)
         \o StripKept(Tail(pieces))

\* main: the command line gave a target string and a mode of 1 to 5
TargetInit ==
    /\ targets_str \in TargetStrings
    /\ parsed = <<>>
    /\ classified = <<>>
    /\ target_df = None
    /\ warning = FALSE
    /\ pc = "parse_targets"
    /\ runner = "worker"
    /\ mode \in 1..5
    /\ scanner = None
    /\ job = [j \in JobNames |-> "idle"]
    /\ reads = [j \in JobNames |-> None]
    /\ subdomains_file = None
    /\ ips_file = None
    /\ wordpress_domains = NoSites
    /\ wordpress_targets = NoSites
    /\ warned = {}
    /\ error_logged = FALSE
    /\ ended_at_launch = [j \in JobNames |-> {}]
    /\ launches = [j \in JobNames |-> 0]
    /\ result = NoResult
    /\ event = [op |-> "init", id |-> 0, res |-> None, body |-> <<>>]
    /\ NoScan
    /\ NoApi

\* parse_targets: an empty list is warned about and gives an empty frame,
\* any other list is handed to categorize_targets
ParseTargets ==
    /\ pc = "parse_targets"
    /\ LET targets_list == StripKept(SplitComma(targets_str))
       IN /\ parsed' = targets_list
          /\ IF targets_list = <<>>
             THEN /\ warning' = TRUE
                  /\ target_df' = "empty"
                  /\ UNCHANGED classified
             ELSE /\ classified' = Append(classified, targets_list)
                  /\ target_df' = "categorized"
                  /\ UNCHANGED warning
    /\ pc' = "main"
    /\ Note("parse_targets", None)
    /\ UNCHANGED <<targets_str, pipeVars, runVars, findVars, vulnerabilities, sink, apiVars>>

\* main: worker(mode, targets=args.target, target_df=...) and asyncio.run
MainRunWorker ==
    /\ pc = "main"
    /\ pc' = "run"
    /\ Note("worker", None)
    /\ UNCHANGED <<pipeVars, otherVars>>

TargetNext ==
    \/ ParseTargets
    \/ MainRunWorker
    \/ RunStage1
    \/ RunMode5

TargetSpec == TargetInit /\ [][TargetNext]_vars

\* ===================================================================
\* start_task through the remote API: handler, client, monitor
\* ===================================================================
\* the scanner daemon's XML answer to start_task, by what the handler reads
\* of it: the status attribute, root.findtext("report_id"), the root's
\* report_id attribute, the id of a descendant report element (NoField when
\* there is no such element), and the text of a deeper report_id element
GmpResponses ==
    [status : {"202", "404"},
     child : {None, "", RID},
     attr : {None, RID},
     report : {NoField, None, "", RID},
     nested : {None, RID}]

\* the request did not reach the handler
NoGmp == [status |-> None, child |-> None, attr |-> None, report |-> NoField, nested |-> None]

\* methods 1 to 4 of the handler, each tried when the one before gave a
\* falsy report_id
FinalReportId(resp) ==
    LET m1 == resp.child
        m2 == IF Truthy(m1) THEN m1 ELSE resp.attr
        m3 == IF Truthy(m2) \/ resp.report = NoField THEN m2 ELSE resp.report
    IN IF Truthy(m3) \/ ~Truthy(resp.nested) THEN m3 ELSE resp.nested

\* mutant of StartTaskHandler: an error status is answered with an HTTP error
StartTaskHandler_ChecksStatus(resp) ==
    IF resp.status = "202"
    THEN [code |-> 200, status |-> "Started", report_id |-> FinalReportId(resp)]
    ELSE [code |-> 404, status |-> "HTTPException", report_id |-> None]

\* POST /tasks/{task_id}/start: the body returned, with the HTTP code
StartTaskHandler(resp) ==
    [code |-> 200, status |-> "Started", report_id |-> FinalReportId(resp)]

\* OpenVASAPIClient.start_task: raise_for_status, then the JSON body; the
\* start result is held as the report_id of the dict, as in StartResponses
ClientStartTask(answer) == IF answer.code >= 400 THEN Exc ELSE answer.report_id

\* one start_task call of the third gather ends, answered by the handler or
\* failed before it
ApiStartTask(k, resp) ==
    /\ pc = "start_tasks"
    /\ k \in 1..Len(task_results)
    /\ starts[k] = Pending
    /\ resp \in GmpResponses \cup {NoGmp}
    /\ LET t == task_results[k]
           answer == StartTaskHandler(resp)
           r == IF resp = NoGmp THEN Exc ELSE ClientStartTask(answer)
       IN /\ starts' = [starts EXCEPT ![k] = r]
          /\ gmp_status' = [gmp_status EXCEPT ![t] = resp.status]
          /\ answered' = [answered EXCEPT ![t] = IF resp = NoGmp THEN None ELSE answer.status]
          /\ event' = [op |-> "start_task", id |-> t, res |-> r, body |-> resp]
          /\ Issue("start_task", t)
    /\ UNCHANGED <<entry, targets, pc, created, target_results, tasks, task_results,
                   monVars, ingestVars, findVars, pipeVars, parseVars>>

ApiNext ==
    \/ \E k \in Ids : CreateTarget(k)
    \/ CollectTargets
    \/ \E k \in Ids : CreateTask(k)
    \/ CollectTasks
    \/ \E k \in Ids, resp \in GmpResponses \cup {NoGmp} : ApiStartTask(k, resp)
    \/ ScanTargetsMonitor
    \/ WorkerRunReturn
    \/ MonitorCheck
    \/ SkipCompleted
    \/ \E answer \in StatusAnswers : GetTaskStatus(answer)
    \/ \E raised \in BOOLEAN, body \in Bodies : FetchReport(raised, body)
    \/ \E ok \in BOOLEAN : WriteFile(ok)
    \/ \E ending \in ParseEndings, n \in 0..MaxFindings, j \in 0..(MaxTargets * MaxFindings) :
          ParseResults(ending, n, j)
    \/ ScanTargetsReturn

ApiSpec == Init /\ [][ApiNext]_vars

\* the event loop keeps running the coroutine that is ready
ApiLiveSpec == ApiSpec /\ WF_vars(ApiNext)

\* ===================================================================
\* Claims
\* ===================================================================
Tracked == 1..Len(task_info)
Tid(i) == task_info[i].task_id
Reports(i) == calls["get_report"][Tid(i)]
\* the monitor is between the status poll of position i and the end of its handling
Handling(i) == pc \in {"fetch_report", "write_file", "parse"} /\ idx = i
\* the position of the entry tracked for task t
PosOf(t) == CHOOSE i \in Tracked : Tid(i) = t
IsTracked(t) == \E i \in Tracked : Tid(i) = t
RecordsOf(t) == {k \in 1..Len(vulnerabilities) : vulnerabilities[k] = t}
SunkOf(t) == {k \in 1..Len(sink) : sink[k] = t}
MonitorGone == pc \in {"monitor_returned", "returned"}

\* C1: a tracked task with a report id whose polls answer Running, Running,
\* Done: after polls 1 and 2 it is not completed and no report was fetched;
\* the third poll issues exactly one get_report and ends with completed set
\* to true, by one single assignment.
C1_ScriptedRun ==
    \A i \in Tracked :
        Truthy(task_info[i].report_id) =>
            /\ scriptPos[i] \in {1, 2} =>
                  ~task_info[i].completed /\ Reports(i) = 0 /\ nSet[Tid(i)] = 0
            /\ scriptPos[i] = 3 /\ Handling(i) =>
                  /\ ~task_info[i].completed /\ nSet[Tid(i)] = 0
                  /\ Reports(i) = (IF pc = "fetch_report" THEN 0 ELSE 1)
            /\ scriptPos[i] = 3 /\ ~Handling(i) =>
                  task_info[i].completed /\ Reports(i) = 1 /\ nSet[Tid(i)] = 1

\* the scripted run happened with every call succeeding: the report was
\* fetched, written and ingested
C1_Witness ==
    \E i \in Tracked :
        /\ scriptPos[i] = 3 /\ task_info[i].completed
        /\ Tid(i) \in files /\ nParse[Tid(i)] = 1
        /\ event.op = "parse" /\ event.res = "done" /\ event.id = Tid(i)

\* C2: the monitor issues at most one get_report call per task, whatever the
\* remote service answers.
C2_AtMostOneFetch == \A t \in Ids : calls["get_report"][t] <= 1

\* a task's fetch raised, and the monitor is polling in a later iteration
\* that skipped it
C2_Witness ==
    /\ event.op = "get_task_status"
    /\ \E i \in Tracked :
          /\ Reports(i) = 1 /\ Tid(i) \notin files
          /\ task_info[i].completed /\ i \notin polled /\ i < idx

\* one step, seen from an entry that is completed before it
C3_CompletedStep ==
    \A i \in Tracked :
        task_info[i].completed =>
            /\ Len(task_info') = Len(task_info)
            /\ task_info'[i] = task_info[i]
            /\ nSet'[Tid(i)] = nSet[Tid(i)]
            /\ calls'["get_report"][Tid(i)] = calls["get_report"][Tid(i)]
            /\ ~(event'.op \in {"get_task_status", "get_report"} /\ event'.id = Tid(i))

\* C3: completed goes from false to true at most once and is never reset;
\* once it is true the monitor issues no get_task_status and no get_report
\* for that task and leaves its entry as it is.
C3_CompletedIsFinal ==
    /\ [](\A i \in Tracked : nSet[Tid(i)] = (IF task_info[i].completed THEN 1 ELSE 0))
    /\ [][C3_CompletedStep]_vars

\* the loop passes over a completed entry while a sibling is still polled
C3_Witness ==
    /\ event.op = "skip"
    /\ \E i \in Tracked : Tid(i) = event.id /\ task_info[i].completed
    /\ \E i \in Tracked : ~task_info[i].completed

\* one step, seen from a completed entry for which no report was fetched
C4_AbortStep ==
    \A i \in Tracked :
        task_info[i].completed /\ Reports(i) = 0 => calls'["get_report"][Tid(i)] = 0

\* C4: a poll that answers Failed or Interrupted marks the task completed in
\* that poll, and no get_report is ever issued for the task, with or
\* without a report id.
C4_AbortedNeverFetched ==
    /\ [](event.op = "get_task_status" /\ event.res \in AbortStatuses =>
            /\ IsTracked(event.id)
            /\ task_info[PosOf(event.id)].completed
            /\ calls["get_report"][event.id] = 0
            /\ ~Handling(PosOf(event.id)))
    /\ [][C4_AbortStep]_vars

\* a task that has a report id was polled as Failed
C4_Witness ==
    /\ event.op = "get_task_status" /\ event.res = "Failed"
    /\ IsTracked(event.id)
    /\ Truthy(task_info[PosOf(event.id)].report_id)

\* a body that is empty or holds whitespace only
BlankBody(body) == \A k \in 1..Len(body) : body[k] \in Whitespace

\* C5: when get_report raises or answers an empty or whitespace-only body,
\* the task is marked completed in that poll, no report file is written, the
\* ingestion is not called and no record of the task exists.
C5_NoReportNoIngestion ==
    event.op = "get_report" /\ (event.res = Exc \/ BlankBody(event.body)) =>
        /\ IsTracked(event.id)
        /\ task_info[PosOf(event.id)].completed
        /\ ~Handling(PosOf(event.id))
        /\ event.id \notin files
        /\ nParse[event.id] = 0
        /\ RecordsOf(event.id) = {}
        /\ SunkOf(event.id) = {}

\* get_report answered a body of whitespace only
C5_Witness ==
    /\ event.op = "get_report" /\ event.res = "ok"
    /\ event.body # <<>> /\ BlankBody(event.body)

\* a step in which get_task_status raised, and a step that ends a sleep
C6_RaiseStep ==
    /\ event'.op = "get_task_status" /\ event'.res = Exc =>
          /\ task_info' = task_info
          /\ calls' = calls
          /\ nSet' = nSet
          /\ IF idx < Len(task_info)
             THEN pc' = "for_task" /\ idx' = idx + 1
             ELSE pc' = "monitor_sleep"
    /\ pc = "monitor_sleep" /\ (\E i \in Tracked : ~task_info[i].completed) =>
          pc' = "for_task" /\ idx' = 1 /\ polled' = {}

\* C6: when get_task_status raises for a task, its entry is left as it was
\* and no report is fetched; the loop goes on to the other entries, so that
\* at the end of the iteration every entry not completed has been polled in
\* it; and a sleep that ends with an entry not completed starts a new
\* iteration, which polls the failing task again.
C6_StatusErrorIsolated ==
    /\ [](pc = "monitor_sleep" /\ event.op # "monitor_start" =>
            \A i \in Tracked : task_info[i].completed \/ i \in polled)
    /\ [](pc = "for_task" =>
            \A i \in Tracked : i < idx => task_info[i].completed \/ i \in polled)
    /\ [][C6_RaiseStep]_vars

\* the status call of the first entry raised and the loop stands at its sibling
C6_Witness ==
    /\ pc = "for_task" /\ idx = 2
    /\ event.op = "get_task_status" /\ event.res = Exc /\ event.id = Tid(1)
    /\ ~task_info[1].completed /\ ~task_info[2].completed

\* the answers of get_task_status that are no terminal status, and a step
\* that polled one of them
OtherAnswers == StatusAnswers \ (TerminalStatuses \cup {Exc})

C7_OtherStep ==
    event'.op = "get_task_status" /\ event'.res \in OtherAnswers =>
        /\ task_info' = task_info
        /\ calls' = calls
        /\ nSet' = nSet
        /\ files' = files

\* C7: a poll whose status is none of Done, Stopped, Failed, Interrupted
\* (Running, Requested, a response without a status field) changes nothing
\* in the task's entry, fetches no report, and leaves the task in the loop.
C7_OtherStatusNoChange ==
    /\ [](event.op = "get_task_status" /\ event.res \in OtherAnswers =>
            /\ IsTracked(event.id)
            /\ ~task_info[PosOf(event.id)].completed
            /\ pc \in {"for_task", "monitor_sleep"})
    /\ [][C7_OtherStep]_vars

\* a status response without a status field
C7_Witness ==
    /\ event.op = "get_task_status" /\ event.res = NoField
    /\ pc = "monitor_sleep"

\* a step that ends a sleep, and a step in which the monitor returns
C8_LoopStep ==
    /\ pc = "monitor_sleep" /\ (\E i \in Tracked : ~task_info[i].completed) =>
          pc' = "for_task"
    /\ pc' = "monitor_returned" /\ pc # "monitor_returned" =>
          pc = "monitor_sleep" /\ \A i \in Tracked : task_info[i].completed

\* C8: the monitor returns only when every tracked task is completed; a
\* sleep that ends while a task is not completed starts another iteration,
\* and nothing counts the iterations.
C8_ReturnsOnlyWhenAllCompleted ==
    /\ [](MonitorGone /\ entry = "scan_targets" =>
            \A i \in Tracked : task_info[i].completed)
    /\ [][C8_LoopStep]_vars

\* the monitor returned with two tracked tasks
C8_Witness ==
    /\ pc = "monitor_returned"
    /\ Len(task_info) = 2

\* C9: under the fairness of LiveSpec, every tracked task is eventually
\* completed and the run eventually returns, whatever get_report, the file
\* write and the ingestion answer.
C9_EventuallyReturns ==
    <>(pc = "returned" /\ \A i \in Tracked : task_info[i].completed)

\* the run returned although a report fetch raised and an ingestion raised
C9_Witness ==
    /\ pc = "returned" /\ Len(task_info) = 2
    /\ \E i \in Tracked : Reports(i) = 1 /\ Tid(i) \notin files
    /\ \E i \in Tracked : nParse[Tid(i)] = 1 /\ SunkOf(Tid(i)) = {}

\* what the gathers of the run answered for target t, and how far the run is
CreateTargetFailed(t) == \E k \in 1..Len(created) : targets[k] = t /\ created[k] = Exc
CreateTargetOk(t) == \E k \in 1..Len(created) : targets[k] = t /\ created[k] = "ok"
CreateTaskFailed(t) == \E k \in 1..Len(tasks) : target_results[k] = t /\ tasks[k] = Exc
CreateTaskOk(t) == \E k \in 1..Len(tasks) : target_results[k] = t /\ tasks[k] = "ok"
StartOk(t) ==
    \E k \in 1..Len(starts) : task_results[k] = t /\ starts[k] \notin {Exc, Pending}
TasksCollected == pc \notin {"create_targets", "create_tasks"}
StartsCollected == pc \notin {"create_targets", "create_tasks", "start_tasks"}

\* C10: a target whose create_target failed gets no create_task; a target
\* whose create_task failed gets no start_task and is not tracked; and the
\* other targets are created, started and tracked all the same.
C10_FailuresExcluded ==
    \A t \in Ids :
        /\ CreateTargetFailed(t) =>
              calls["create_task"][t] = 0 /\ calls["start_task"][t] = 0 /\ ~IsTracked(t)
        /\ CreateTaskFailed(t) => calls["start_task"][t] = 0 /\ ~IsTracked(t)
        /\ CreateTargetOk(t) /\ TasksCollected => calls["create_task"][t] = 1
        /\ CreateTaskOk(t) /\ StartsCollected => calls["start_task"][t] = 1
        /\ StartOk(t) /\ StartsCollected /\ entry = "scan_targets" => IsTracked(t)

\* the first target's create_target failed and the second target is tracked
C10_Witness ==
    /\ Len(targets) = 2 /\ created[1] = Exc
    /\ IsTracked(targets[2])
    /\ calls["create_task"][targets[2]] = 1 /\ calls["start_task"][targets[2]] = 1

\* the start_task gather answered an exception for target t
StartFailed(t) == \E k \in 1..Len(starts) : task_results[k] = t /\ starts[k] = Exc

\* C11: start_task is called exactly once for every task that was created,
\* never twice for one task id and never again after a start call failed;
\* a target without a created task gets no start_task call.
C11_StartedExactlyOnce ==
    \A t \in Ids :
        /\ calls["start_task"][t] <= 1
        /\ StartFailed(t) => calls["start_task"][t] = 1
        /\ CreateTaskOk(t) /\ StartsCollected => calls["start_task"][t] = 1
        /\ calls["start_task"][t] = 1 => CreateTaskOk(t)

\* the run is over: one task's start call failed, another's succeeded, and
\* each was called once
C11_Witness ==
    /\ pc = "returned" /\ Len(starts) = 2
    /\ starts[1] = Exc /\ starts[2] = RID
    /\ calls["start_task"][task_results[1]] = 1
    /\ calls["start_task"][task_results[2]] = 1

\* the start_task gather answered target t without a report id
StartedWithoutReportId(t) ==
    \E k \in 1..Len(starts) :
        task_results[k] = t /\ starts[k] \notin {Exc, Pending} /\ ReportIdOf(starts[k]) = None

\* C12: a task started without a report id is tracked by the monitor, not
\* completed when the monitor starts; no get_report is ever issued for it and
\* no record of it exists, and a poll that answers Done or Stopped marks it
\* completed in that poll.
C12_NoReportIdCompletedWithoutFetch ==
    \A t \in Ids :
        StartedWithoutReportId(t) /\ StartsCollected /\ entry = "scan_targets" =>
            /\ IsTracked(t)
            /\ task_info[PosOf(t)].report_id = None
            /\ event.op = "monitor_start" => ~task_info[PosOf(t)].completed
            /\ calls["get_report"][t] = 0
            /\ t \notin files /\ nParse[t] = 0
            /\ RecordsOf(t) = {} /\ SunkOf(t) = {}
            /\ ~Handling(PosOf(t))
            /\ event.op = "get_task_status" /\ event.id = t /\ event.res \in FetchStatuses =>
                  task_info[PosOf(t)].completed /\ nSet[t] = 1

\* a task without a report id was polled as Running and then as Done, while
\* another task's report was ingested with a record
C12_Witness ==
    /\ event.op = "get_task_status" /\ event.res = "Done"
    /\ StartedWithoutReportId(event.id)
    /\ task_info[PosOf(event.id)].completed
    /\ \E t \in Ids : t # event.id /\ RecordsOf(t) # {}

\* C13: each mode-5 entry point hands every started task to the monitor: when
\* the run has returned, every task whose start call succeeded is tracked and
\* completed. worker.run with mode 5 returns right after the start gather.
C13_ReturnsOnlyAfterMonitoring ==
    pc = "returned" =>
        \A t \in Ids : StartOk(t) => IsTracked(t) /\ task_info[PosOf(t)].completed

\* C14: a report fetched with content is written to its file, then ingested
\* exactly once, then the task is marked completed: no task is completed
\* while its report is handled, no report is ingested twice or before its
\* file is written, and a task completed after its fetch returned content
\* has its file written and one ingestion call. The write can raise, and
\* the task is then completed without an ingestion.
C14_PersistIngestComplete ==
    /\ \A t \in Ids : nParse[t] <= 1 /\ (nParse[t] = 1 => t \in files)
    /\ \A i \in Tracked : Handling(i) => ~task_info[i].completed
    /\ \A i \in Tracked :
          /\ event.op \in {"write_file", "parse"} /\ event.id = Tid(i)
          /\ task_info[i].completed
          => Tid(i) \in files /\ nParse[Tid(i)] = 1

\* C15: an ingestion call that meets a report file that is not well-formed
\* XML creates no record and makes no sink insert, and the task of that
\* report is marked completed by that call; the entries, ingestion counts
\* and files of the other tasks are as they were.
C15_MalformedReportIsolated ==
    [][event'.op = "parse" /\ event'.res = "parse_error" =>
          /\ vulnerabilities' = vulnerabilities
          /\ sink' = sink
          /\ nParse'[event'.id] = 1
          /\ task_info'[idx].task_id = event'.id /\ task_info'[idx].completed
          /\ nSet'[event'.id] = 1
          /\ \A i \in Tracked : i # idx => task_info'[i] = task_info[i]
          /\ \A t \in Ids : t # event'.id => nParse'[t] = nParse[t]
          /\ files' = files]_vars

\* the first task's report was malformed, and the second task's report was
\* then ingested with a record that reached the sink
C15_Witness ==
    /\ Len(task_info) = 2
    /\ nParse[Tid(1)] = 1 /\ RecordsOf(Tid(1)) = {} /\ task_info[1].completed
    /\ event.op = "parse" /\ event.res = "done" /\ event.id = Tid(2)
    /\ RecordsOf(Tid(2)) # {} /\ SunkOf(Tid(2)) # {}

\* C20: over a monitor run that ingests any number of reports, every record
\* is handed to the sink at most once: the sink never holds more entries
\* than records were created, in all and for each task's reports. Each
\* ingestion call inserts the whole of self.vulnerabilities.
C20_ForwardedExactlyOnce ==
    /\ Len(sink) <= Len(vulnerabilities)
    /\ \A t \in Ids : Cardinality(SunkOf(t)) <= Cardinality(RecordsOf(t))

\* the <result> elements of the report, and the records built for element k
Results == report.results
RecordsFor(k) == {i \in 1..Len(vulnerabilities) : vulnerabilities[i].finding = k}
\* the loop body has run for element k and went on
Passed(k) == k \in 1..Len(Results) /\ k < pos
\* the titles of Titles that hold a denylisted text, and the others
DenylistedTitles == {WeakCipherSuites, SslWeakCiphers}
OtherTitles == {CipherWeak, OpenSshRce}

\* C16: a result whose title holds a denylisted text gets no record and adds
\* one to the skipped counter; a result with another title does not change
\* the counter and, when the loop went past it, has its record. A report
\* whose only result is titled "Weak Cipher Suites Supported" ends with no
\* record and a skipped count of 1.
C16_DenylistedSkipped ==
    pc \in {"ingest_loop", "ingest_insert", "ingest_returned", "ingest_raised"} =>
        /\ skipped_count =
              Cardinality({k \in 1..Len(Results) :
                              Passed(k) /\ Results[k].name \in DenylistedTitles})
        /\ \A k \in 1..Len(Results) :
              /\ Results[k].name \in DenylistedTitles => RecordsFor(k) = {}
              /\ Passed(k) /\ Results[k].name \in OtherTitles =>
                    Cardinality(RecordsFor(k)) = 1
        /\ vulnerability_count =
              Cardinality({k \in 1..Len(Results) :
                              Passed(k) /\ Results[k].name \in OtherTitles})
        /\ /\ pc = "ingest_returned"
           /\ Len(Results) = 1 /\ Results[1].name = WeakCipherSuites
           => /\ skipped_count = 1 /\ vulnerability_count = 0
              /\ \A i \in 1..Len(vulnerabilities) : vulnerabilities[i].finding = 0

\* the report with the one result "Weak Cipher Suites Supported" was ingested
C16_Witness ==
    /\ pc = "ingest_returned"
    /\ Len(Results) = 1 /\ Results[1].name = WeakCipherSuites
    /\ skipped_count = 1 /\ vulnerabilities = <<>>

\* C17: the record built for a result with a real CVE id is exploitable
\* exactly when the feed answered a percentile of at least 0.65, and the
\* feed is not asked for a result without a real CVE id. The record is built
\* without the local exploit.
C17_ExploitableFromFeed ==
    /\ \A i \in 1..Len(vulnerabilities) :
          LET rec == vulnerabilities[i]
              k == rec.finding
          IN k >= 1 /\ Results[k].cve = RealCve =>
                (Exploitable(rec) <=> feed[k] \in {"0.80", "0.65"})
    /\ \A k \in 1..Len(Results) : Results[k].cve # RealCve => feed[k] = None

\* the answers of the feed that are failures of the query
FeedFailures == {Exc, "non200", "nodata", "n/a"}

\* C18: when the feed query for a result fails, the locals keep the default
\* score 0.0 and not exploitable, the result's record is built all the same
\* (unless the result lacks an element), with that score and not
\* exploitable, and the loop goes on with the next result.
C18_FeedFailureContained ==
    \A k \in 1..Len(Results) :
        feed[k] \in FeedFailures =>
            /\ event.op = "result" /\ event.id = k => epss = 0 /\ exploit = FALSE
            /\ Results[k].lacks = "none" =>
                  /\ Passed(k)
                  /\ event.op = "result" /\ event.id = k => pc = "ingest_loop"
                  /\ Cardinality(RecordsFor(k)) = 1
                  /\ \A i \in RecordsFor(k) :
                        /\ ScoreOf(vulnerabilities[i]) = 0
                        /\ ~Exploitable(vulnerabilities[i])

\* the feed raised for the first result and answered an unparsable
\* percentile for the second, and both records were built and inserted
C18_Witness ==
    /\ pc = "ingest_returned" /\ Len(Results) = 2
    /\ feed[1] = Exc /\ feed[2] = "n/a"
    /\ RecordsFor(1) # {} /\ RecordsFor(2) # {}

\* C19: a record built for a result whose CVE is NOCVE (given or by default)
\* carries summary, impact, poc and the exploit score beside the common
\* fields and no CVE; a record built for a result with a real CVE id carries
\* the common fields and the CVE and nothing else.
C19_ShapeFollowsCve ==
    \A i \in 1..Len(vulnerabilities) :
        LET rec == vulnerabilities[i]
            k == rec.finding
            common == {"title", "affected_item", "tool", "confidence", "severity", "host"}
        IN k >= 1 =>
            /\ Results[k].cve = RealCve =>
                  /\ DOMAIN rec.args = common \cup {"cve_number"}
                  /\ rec.args["cve_number"] = RealCve
            /\ Results[k].cve \in {NoCve, NoField} =>
                  /\ common \cup {"summary", "impact", "poc", "epss"} \subseteq DOMAIN rec.args
                  /\ "cve_number" \notin DOMAIN rec.args
                  /\ rec.args["epss"] = 0

\* one report gave a record for a result with a real CVE id and a record for
\* a result that has no cve element
C19_Witness ==
    /\ pc = "ingest_returned" /\ Len(Results) = 2
    /\ Results[1].cve = RealCve /\ Results[2].cve = NoField
    /\ RecordsFor(1) # {} /\ RecordsFor(2) # {}

\* C21: a sink call that fails for one record, by raising or by returning
\* false, does not end the insert loop: the loop goes on with the next
\* record, and when the ingestion has ended after its result loop every
\* record of self.vulnerabilities has been handed to the sink. The insert
\* loop has no try: a raising call ends the ingestion.
C21_SinkFailureContained ==
    /\ event.op = "insert" /\ event.res # "ok" =>
          pc = "ingest_insert" /\ ipos = event.id + 1
    /\ pc \in {"ingest_returned", "ingest_raised"} /\ ipos >= 1 =>
          ipos > Len(vulnerabilities)

\* the jobs that were launched
Launched == {j \in JobNames : launches[j] > 0}

\* C22: in modes 2, 3 and 4, when a job has raised, no exception leaves
\* run(), no sibling job is cut short, and when run() has ended every other
\* launched job has run to its end.
C22_GroupFailureContained ==
    mode \in {2, 3, 4} /\ (\E j \in JobNames : job[j] = "failed") =>
        /\ pc # "raised"
        /\ \A j \in JobNames : job[j] # "cancelled"
        /\ pc = "returned" => \A j \in Launched : job[j] \in {"done", "failed"}

\* run() has ended, by returning or by raising
RunEnded == pc \in {"returned", "raised"}

\* C23: when a run of mode 1, 2, 3 or 4 has ended, by returning or by
\* raising, every job it launched has ended on its own: none is still
\* running and none was cancelled.
C23_EndsOnlyWhenDrained ==
    mode \in 1..4 /\ RunEnded =>
        \A j \in Launched : job[j] \notin {"running", "cancelled"}

\* C24: no job of the second stage starts before every job of the first
\* stage has ended: in mode 3 nuclei and the WordPress detector are launched
\* only when rustscan and bbot have both ended, in mode 4 none of the three
\* follow-up jobs is launched, or skipped, before bbot has ended.
C24_Stage2AfterStage1 ==
    /\ mode = 3 =>
          \A j \in {"nuclei", "wordpress_detector"} :
              j \in Launched => {"rustscan", "bbot"} \subseteq ended_at_launch[j]
    /\ mode = 4 =>
          \A j \in FollowUps :
              /\ j \in Launched => "bbot" \in ended_at_launch[j]
              /\ job[j] # "idle" => "bbot" \in Ended

\* AggressiveScanner.run has launched nuclei and the WordPress detector
C24_Witness ==
    /\ mode = 3 /\ runner = "scanner"
    /\ job["nuclei"] = "running" /\ job["wordpress_detector"] = "running"

\* the jobs that read a file of bbot, and whether that file is usable:
\* present and not empty, with an entry in the case of the IP file
Dependents == IF mode = 3 THEN {"nuclei", "wordpress_detector"} ELSE FollowUps
Usable(j) ==
    IF j = "rustscan" THEN ips_file = "content"
    ELSE subdomains_file \in {"blank", "content"}

\* C25: in modes 3 and 4 a bbot job that raised does not end the run, and
\* when bbot left no usable file each job that reads the file is skipped
\* with a logged warning: it is not launched on the file.
C25_NoArtifactSkips ==
    mode \in {3, 4} =>
        /\ job["bbot"] = "failed" => pc # "raised"
        /\ job["bbot"] = "done" =>
              \A j \in Dependents :
                  ~Usable(j) => /\ j \notin Launched
                                /\ job[j] = "skipped" => j \in warned

\* C26: in mode 3, with worker.run and with AggressiveScanner.run, nuclei and
\* the WordPress detector are both launched before either has ended, and
\* nuclei is launched before the detector and the WordPress nuclei scan end.
C26_NucleiBesideDetector ==
    mode = 3 =>
        /\ "wordpress_detector" \in Ended => "nuclei" \in Launched
        /\ "nuclei" \in Ended => "wordpress_detector" \in Launched
        /\ "nuclei" \in Launched =>
              ended_at_launch["nuclei"] \cap {"wordpress_detector", "wordpress_nuclei"} = {}
        /\ "wordpress_detector" \in Launched =>
              "nuclei" \notin ended_at_launch["wordpress_detector"]

\* the WordPress detector returned a list that holds a site
SitesFound == job["wordpress_detector"] = "done" /\ wordpress_domains # <<>>

\* C27: in modes 3 and 4 the WordPress nuclei scan is launched exactly when
\* the WordPress detector returned a list that holds a site; it is launched
\* after the detector has ended, at most once, and with the list the
\* detector returned.
C27_WordpressScanFollowsSites ==
    mode \in {3, 4} =>
        /\ "wordpress_nuclei" \in Launched <=> SitesFound
        /\ launches["wordpress_nuclei"] <= 1
        /\ "wordpress_nuclei" \in Launched =>
              /\ "wordpress_detector" \in ended_at_launch["wordpress_nuclei"]
              /\ wordpress_targets = wordpress_domains
        /\ "wordpress_nuclei" \notin Launched => wordpress_targets = NoSites

\* the detector returned two sites and the WordPress nuclei scan runs on them
C27_Witness ==
    /\ mode \in {3, 4}
    /\ wordpress_domains = <<"wp1", "wp2">>
    /\ job["wordpress_nuclei"] = "running"
    /\ wordpress_targets = <<"wp1", "wp2">>

\* mode 4 has gathered its follow-up coroutines
FollowUpsReached == mode = 4 /\ \A j \in FollowUps : job[j] # "idle"

\* C28: in mode 4 nuclei and the WordPress detector are launched exactly
\* when the subdomains file is present and not empty, rustscan exactly when
\* the IP file is present, not empty and holds a non-blank line; a job that
\* is not launched is skipped, and the state of the other file plays no part.
C28_GatedOnOwnArtifact ==
    /\ mode = 4 /\ (\E j \in FollowUps : job[j] # "idle") => FollowUpsReached
    /\ FollowUpsReached =>
          /\ \A j \in {"nuclei", "wordpress_detector"} :
                /\ j \in Launched <=> subdomains_file \in {"blank", "content"}
                /\ job[j] = "skipped" <=> subdomains_file \in {"absent", "empty"}
          /\ "rustscan" \in Launched <=> ips_file = "content"
          /\ job["rustscan"] = "skipped" <=> ips_file \in {"absent", "empty", "blank"}

\* no subdomains file and an IP file with entries: rustscan runs while
\* nuclei and the detector are skipped
C28_Witness ==
    /\ mode = 4
    /\ subdomains_file = "absent" /\ ips_file = "content"
    /\ job["rustscan"] = "running"
    /\ job["nuclei"] = "skipped" /\ job["wordpress_detector"] = "skipped"

\* what bbot writes for the jobs after it
BbotOutput == {"subdomains_file", "ips_file"}

\* C29: in mode 2 bbot and rustscan are launched together and nothing else
\* is: neither had ended when the other was launched, neither is constructed
\* with what the other writes, and a run that returned has both ended. In
\* mode 1 bbot over the raw targets is the one job launched.
C29_IndependentJobs ==
    /\ mode = 2 =>
          /\ Launched \in {{}, {"bbot", "rustscan"}}
          /\ pc \notin {"run", "create_scanner"} => Launched = {"bbot", "rustscan"}
          /\ \A j \in Launched :
                /\ ended_at_launch[j] = {}
                /\ launches[j] = 1
                /\ reads[j] \notin BbotOutput
          /\ pc = "returned" => job["bbot"] = "done" /\ job["rustscan"] = "done"
    /\ mode = 1 =>
          /\ Launched \in {{}, {"bbot"}}
          /\ pc \notin {"run", "create_scanner"} => Launched = {"bbot"}
          /\ \A j \in Launched : launches[j] = 1 /\ reads[j] = "targets"
          /\ pc = "returned" => job["bbot"] = "done"

\* a mode-2 run returned, with both jobs done
C29_Witness ==
    /\ mode = 2 /\ pc = "returned"
    /\ job["bbot"] = "done" /\ job["rustscan"] = "done"
    /\ event.op = "return"

\* C30: for a mode number outside 1..5 no job is launched and no remote
\* call is made; worker.run logs the invalid mode as an error and returns,
\* and create_scanner returns no scanner.
C30_InvalidModeStartsNothing ==
    mode \notin 1..5 =>
        /\ \A j \in JobNames : job[j] = "idle" /\ launches[j] = 0
        /\ \A op \in Ops : \A t \in Ids : calls[op][t] = 0
        /\ pc \in {"run", "create_scanner", "returned", "no_scanner"}
        /\ scanner = None
        /\ runner = "worker" /\ pc # "run" => pc = "returned" /\ error_logged
        /\ runner = "scanner" /\ pc # "create_scanner" => pc = "no_scanner"

\* worker.run with mode 0 has logged the error and returned, no job launched
C30_Witness ==
    /\ runner = "worker" /\ mode = 0
    /\ pc = "returned" /\ error_logged
    /\ Launched = {}

\* C31: a run of mode 1, 2, 3 or 4 in which every launched job ends, done or
\* failed, ends by returning its result, also when a job that another one
\* depends on failed or was skipped.
C31_RunEndsWithResult ==
    (mode \in 1..4 /\ pc = "run") ~> (pc = "returned")

\* the same run ends, by returning or by raising
C31_RunEnds ==
    (mode \in 1..4 /\ pc = "run") ~> RunEnded

\* the jobs a mode declares: those of the first await and of the last gather
Declared == Stage1Jobs(mode) \cup Stage2Jobs \cup
            (IF mode = 3 THEN {"nuclei", "wordpress_detector"} ELSE {})

\* C32: the result a run of mode 2, 3 or 4 returns has one slot per declared
\* job, skipped jobs included: two in mode 2, four in mode 3 and in mode 4.
C32_OneSlotPerJob ==
    mode \in {2, 3, 4} /\ pc = "returned" =>
        /\ result # NoResult
        /\ Cardinality(result) = Cardinality(Declared)

\* the entries of the target string: entry k lies between comma k-1 and
\* comma k, the ends of the string counting as commas
CommaAt == {i \in 1..Len(targets_str) : targets_str[i] = ","}
EntryBound(k) ==
    IF k = 0 THEN 0
    ELSE IF k = Cardinality(CommaAt) + 1 THEN Len(targets_str) + 1
    ELSE CHOOSE i \in CommaAt : Cardinality({c \in CommaAt : c < i}) = k - 1
Entry(k) == SubSeq(targets_str, EntryBound(k - 1) + 1, EntryBound(k) - 1)
Inked(e) == {i \in 1..Len(e) : e[i] \notin Whitespace}
\* the entries that hold more than whitespace, and the r-th of them
Real == {k \in 1..(Cardinality(CommaAt) + 1) : Inked(Entry(k)) # {}}
RealAt(r) == CHOOSE k \in Real : Cardinality({x \in Real : x < k}) = r - 1
\* an entry without the whitespace around it
Trimmed(e) ==
    LET first == CHOOSE i \in Inked(e) : \A x \in Inked(e) : i <= x
        last == CHOOSE i \in Inked(e) : \A x \in Inked(e) : i >= x
    IN SubSeq(e, first, last)

\* parse_targets kept exactly the entries that hold more than whitespace,
\* trimmed and in the order of the string, and handed them on once
ParsedAsEntries ==
    pc # "parse_targets" =>
        /\ Len(parsed) = Cardinality(Real)
        /\ \A r \in 1..Len(parsed) : parsed[r] = Trimmed(Entry(RealAt(r)))
        /\ classified = IF Real = {} THEN <<>> ELSE <<parsed>>
        /\ Real = {} => warning /\ target_df = "empty"
        /\ Real # {} => ~warning /\ target_df = "categorized"

\* C33: parse_targets drops the empty and whitespace-only entries of the
\* target string and hands every other entry, trimmed and in order, to the
\* classification once; a string of only such entries gives an empty result
\* and a warning, and the run that follows launches no job.
C33_TargetsParsed ==
    /\ ParsedAsEntries
    /\ Real = {} => \A j \in JobNames : job[j] = "idle"

\* the last step made a blocking call: the XML parse of the report file,
\* the query of the scoring feed, or the insert into the sink
MadeBlockingCall ==
    \/ event.op = "et_parse"
    \/ event.op = "result" /\ feed[event.id] # None
    \/ event.op = "insert"

\* C34: no blocking call is made by the event loop itself: the report
\* parse, the scoring-feed query and the sink insert of the ingestion run on
\* the worker pool.
C34_BlockingCallsOnPool ==
    MadeBlockingCall => CalledOn(event.op) = "pool"

\* the last step raised while the monitor handled a fetched report: the
\* file write raised, or the ingestion raised
HandlingRaised ==
    \/ event.op = "write_file" /\ event.res = Exc
    \/ event.op = "parse" /\ event.res = "raised"

\* C35: when the file write or the ingestion raises for a Done or Stopped
\* task, the monitor marks that task completed in that poll, once, and goes
\* on with the next entry of task_info, or to the next sleep after the last
\* entry: the exception leaves neither the monitor nor scan_targets.
C35_HandlingErrorContained ==
    HandlingRaised =>
        LET i == PosOf(event.id)
        IN /\ task_info[i].completed
           /\ nSet[event.id] = 1
           /\ IF i < Len(task_info)
              THEN pc = "for_task" /\ idx = i + 1
              ELSE pc = "monitor_sleep"

\* the ingestion raised for the first of two tracked tasks, and the monitor
\* is about to poll the second
C35_Witness ==
    /\ event.op = "parse" /\ event.res = "raised"
    /\ Len(task_info) = 2 /\ PosOf(event.id) = 1
    /\ task_info[1].completed /\ ~task_info[2].completed
    /\ pc = "for_task" /\ idx = 2

\* the results with a title that is not denylisted and a missing element
Lacking == {k \in 1..Len(Results) :
               Results[k].name \in OtherTitles /\ Results[k].lacks # "none"}

C37_TrackedAreStarted ==
    entry = "scan_targets" =>
        /\ Len(task_info) <= Len(task_results)
        /\ Len(task_results) <= Len(target_results)
        /\ Len(target_results) <= Len(targets)
        /\ \A t \in Ids :
              /\ IsTracked(t) => CreateTargetOk(t) /\ CreateTaskOk(t) /\ StartOk(t)
              /\ StartsCollected /\ CreateTargetOk(t) /\ CreateTaskOk(t) /\ StartOk(t)
                    => IsTracked(t)
              /\ StartFailed(t) =>
                    /\ ~IsTracked(t)
                    /\ calls["get_report"][t] = 0
                    /\ event.op \in {"get_task_status", "get_report", "skip"} => event.id # t
        /\ event.op = "sleep" /\ (\A i \in Tracked : task_info[i].completed) =>
              pc = "monitor_returned"

\* the first task's start call failed, the second task alone was tracked,
\* and the monitor has returned
C37_Witness ==
    /\ entry = "scan_targets" /\ pc = "monitor_returned"
    /\ Len(targets) = 2 /\ Len(task_results) = 2
    /\ StartFailed(task_results[1])
    /\ Len(task_info) = 1 /\ Tid(1) = task_results[2]

\* scan_targets has started the monitor with an empty task_info
MonitorOfNothing == entry = "scan_targets" /\ StartsCollected /\ Len(task_info) = 0

\* C38: a monitor started with no tracked task leaves its loop at the check
\* after its first sleep, without a get_task_status or get_report call, and
\* scan_targets then returns.
C38_EmptyMonitorReturns ==
    MonitorOfNothing =>
        /\ pc \in {"monitor_sleep", "monitor_returned", "returned"}
        /\ event.op \in {"monitor_start", "sleep", "return"}
        /\ event.op = "monitor_start" <=> pc = "monitor_sleep"
        /\ event.op = "sleep" <=> pc = "monitor_returned"
        /\ event.op = "return" <=> pc = "returned"
        /\ polled = {}
        /\ \A t \in Ids : calls["get_report"][t] = 0 /\ nSet[t] = 0

\* two targets were given, both start calls failed, and scan_targets has
\* returned after the monitor of nothing
C38_Witness ==
    /\ MonitorOfNothing /\ pc = "returned"
    /\ Len(targets) = 2 /\ Len(starts) = 2
    /\ \A k \in 1..2 : starts[k] = Exc

\* C39: the exploit score carried by a record built for a NOCVE result is
\* the default 0.0 whatever the result and whatever the feed does: the feed
\* is not asked for such a result, and a record for a real CVE id carries no
\* exploit score.
C39_NoCveScoreIsDefault ==
    \A i \in 1..Len(vulnerabilities) :
        LET rec == vulnerabilities[i]
            k == rec.finding
        IN k >= 1 =>
            /\ CveOf(Results[k]) = NoCve =>
                  /\ "epss" \in DOMAIN rec.args
                  /\ ScoreOf(rec) = 0
                  /\ feed[k] = None
            /\ CveOf(Results[k]) # NoCve =>
                  /\ "epss" \notin DOMAIN rec.args
                  /\ feed[k] # None

\* the feed answered the percentile 0.80 for a first result with a real CVE
\* id, and the record of the NOCVE result after it was built
C39_Witness ==
    /\ Len(Results) = 2
    /\ Results[1].cve = RealCve /\ feed[1] = "0.80" /\ RecordsFor(1) # {}
    /\ Results[2].cve = NoCve /\ RecordsFor(2) # {}

\* the handler answered the start request of task t
Answered(t) == gmp_status[t] # None
\* the status call of task t was answered with a terminal status
TerminalReported(t) ==
    /\ event.op = "get_task_status" /\ event.id = t
    /\ event.res # Exc /\ CurrentStatus(event.res) \in TerminalStatuses
\* the monitor made a status call for task t
StatusAsked(t) == event.op = "get_task_status" /\ event.id = t
\* the start handler's part: Started for whatever the daemon answered
StartedWhateverAnswer ==
    /\ \A t \in Ids : Answered(t) => answered[t] = "Started"
    /\ event.op = "start_task" /\ event.body # NoGmp =>
          /\ event.res # Exc
          /\ event.res = FinalReportId(event.body)
          /\ (/\ event.body.status = "404"
              /\ ~Truthy(event.body.child)
              /\ event.body.attr = None
              /\ event.body.report \in {NoField, None}
              /\ event.body.nested = None) => event.res = None
\* the client's part: scan_targets tracks every task the handler answered
\* for, not completed until a terminal status is reported
AnsweredAreTracked ==
    entry = "scan_targets" /\ StartsCollected =>
        \A t \in Ids : Answered(t) =>
            /\ IsTracked(t)
            /\ \E k \in 1..Len(task_results) :
                  /\ task_results[k] = t
                  /\ task_info[PosOf(t)].report_id = starts[k]

\* C40: the start handler answers Started for every response of the daemon
\* to start_task, an error response and one without a report id included;
\* scan_targets tracks every such task; and while no terminal status is
\* reported for a tracked task the monitor does not return and asks for the
\* task's status again and again.
C40_StartedWhateverTheDaemonSaid ==
    /\ [](StartedWhateverAnswer /\ AnsweredAreTracked)
    /\ \A t \in Ids :
          [](~TerminalReported(t)) =>
              [](entry = "scan_targets" /\ StartsCollected /\ Answered(t) =>
                    ~MonitorGone /\ <>StatusAsked(t))

\* the daemon answered the start of task 1 with an error and no report id,
\* the task is tracked without a report id, and the monitor has asked for
\* its status twice, answered Running, without completing it
C40_Witness ==
    /\ gmp_status[1] = "404" /\ answered[1] = "Started"
    /\ IsTracked(1) /\ task_info[PosOf(1)].report_id = None
    /\ ~task_info[PosOf(1)].completed
    /\ StatusAsked(1) /\ event.res = "Running"
    /\ scriptPos[PosOf(1)] = 2

====
